---- MODULE Spec2Model ----
(***************************************************************************)
(* Model of the fal.ai n8n node (nodes/FalAi/FalAi.node.ts): the path      *)
(* resolver, the error normalizer and FalAi.execute with its queue         *)
(* submit / poll / fetch state machine.                                    *)
(*                                                                         *)
(* Strings that the code splits, joins or concatenates are sequences of    *)
(* atoms: "/" is the slash character, every other atom is a non-empty      *)
(* slash-free piece of text.  Optional values (a field that may be         *)
(* undefined) are <<>> for undefined and <<v>> for the value v.            *)
(***************************************************************************)
EXTENDS Integers, Sequences, FiniteSets, TLC

VARIABLES
    nItems,          \* items.length, the size of the input batch
    cof,             \* what this.continueOnFail() answers
    i,               \* the loop index of execute (0-based, as in the code)
    pc,              \* where execute stands
    params,          \* the node parameters read for item i
    job,             \* locals after the submit: queueResponse, requestId, URLs, startTime
    statusResponse,  \* <<>> or <<r>>: the statusResponse of the current loop iteration
    resultResponse,  \* <<>> or <<r>>: the resultResponse fetched for item i
    result,          \* the local `result` of item i: <<>> unset, <<r>> set
    now,             \* Date.now(), in milliseconds
    returnData,      \* the output records pushed so far
    thrown,          \* <<>> or <<e>>: the error execute raised
    caught,          \* <<>> or <<e>>: the `error` of the catch block entered last
    reqs,            \* every HTTP request issued so far: [item, kind, method, url]
    modelId,         \* argument of a resolveQueuePaths call
    paths,           \* <<>> or <<r>>: what that call returned
    modelSchemaCache, \* the module-level Map: model id -> <<>> or <<[data, timestamp]>>
    calls,           \* the getModelSchema call of each caller: where it stands, its
                     \* argument, what it returned, how many calls the caller made
    heap             \* number of descriptor objects allocated so far

itemVars == <<params, job, statusResponse, resultResponse, result>>
pathVars == <<modelId, paths>>
cacheVars == <<modelSchemaCache, calls, heap>>
vars == <<nItems, cof, i, pc, params, job, statusResponse, resultResponse,
          result, now, returnData, thrown, caught, reqs, modelId, paths,
          modelSchemaCache, calls, heap>>

----------------------------------------------------------------------------
(* Bounds of the model *)

\* longest model id (in atoms) given to resolveQueuePaths on its own
MaxIdLen == 7
\* largest input batch
MaxItems == 2
\* largest configured pollInterval (seconds)
MaxPollOpt == 2
\* largest configured maxWaitTime (seconds)
MaxWaitOpt == 3

(* Program constants *)

DefaultPollInterval == 5
DefaultMaxWaitTime == 600
MsPerSecond == 1000

----------------------------------------------------------------------------
(* Optional values and JavaScript truthiness *)

Undefined == <<>>
Some(v) == <<v>>
\* `x || y` on an optional string: undefined and "" are falsy
OrElse(o, d) == IF o # <<>> /\ o[1] # <<>> THEN o[1] ELSE d
\* `(x as number) || d` on an optional number: undefined and 0 are falsy
NumOrElse(o, d) == IF o # <<>> /\ o[1] # 0 THEN o[1] ELSE d

----------------------------------------------------------------------------
(* String helpers: String.prototype.split('/'), filter(Boolean), join('/')  *)

Slash == "/"

\* s.split('/'): the pieces between slashes, empty pieces included
SplitSlash(s) ==
    LET F[k \in 0..Len(s)] ==
            IF k = 0 THEN << <<>> >>
            ELSE LET p == F[k - 1] IN
                 IF s[k] = Slash THEN Append(p, <<>>)
                 ELSE [p EXCEPT ![Len(p)] = Append(@, s[k])]
    IN F[Len(s)]

\* .filter(Boolean): drops the empty strings
FilterBoolean(parts) == SelectSeq(parts, LAMBDA x : x # <<>>)

\* parts.join('/')
RECURSIVE JoinSlash(_)
JoinSlash(parts) ==
    IF parts = <<>> THEN <<>>
    ELSE IF Len(parts) = 1 THEN parts[1]
    ELSE parts[1] \o <<Slash>> \o JoinSlash(Tail(parts))

\* parts.slice(a) with 0-based a
SliceFrom(parts, a) == SubSeq(parts, a + 1, Len(parts))
\* parts.slice(0, b)
SliceTo(parts, b) == SubSeq(parts, 1, IF b < Len(parts) THEN b ELSE Len(parts))

----------------------------------------------------------------------------
(* resolveQueuePaths *)

\* a resolver that anchors the base at the full path (the plausible slip)
resolveQueuePathsFullBase(id) ==
    LET parts == FilterBoolean(SplitSlash(id)) IN
    [baseModelId |-> JoinSlash(parts), submitPath |-> JoinSlash(parts)]

\* a resolver that forgets .filter(Boolean)
resolveQueuePathsNoFilter(id) ==
    LET parts == SplitSlash(id) IN
    IF Len(parts) <= 2
    THEN [baseModelId |-> JoinSlash(parts), submitPath |-> JoinSlash(parts)]
    ELSE LET base == JoinSlash(SliceTo(parts, 2))
             subpath == JoinSlash(SliceFrom(parts, 2))
         IN [baseModelId |-> base, submitPath |-> base \o <<Slash>> \o subpath]

\* a resolver whose subpath starts one segment too late
resolveQueuePathsSkipsSegment(id) ==
    LET parts == FilterBoolean(SplitSlash(id)) IN
    IF Len(parts) <= 2
    THEN [baseModelId |-> JoinSlash(parts), submitPath |-> JoinSlash(parts)]
    ELSE LET base == JoinSlash(SliceTo(parts, 2))
             subpath == JoinSlash(SliceFrom(parts, 3))
         IN [baseModelId |-> base, submitPath |-> base \o <<Slash>> \o subpath]

resolveQueuePaths(id) ==
    LET parts == FilterBoolean(SplitSlash(id)) IN
    IF Len(parts) <= 2
    THEN LET normalized == JoinSlash(parts)
         IN [baseModelId |-> normalized, submitPath |-> normalized]
    ELSE LET baseModelId == JoinSlash(SliceTo(parts, 2))
             subpath == JoinSlash(SliceFrom(parts, 2))
         IN [baseModelId |-> baseModelId,
             submitPath |-> baseModelId \o <<Slash>> \o subpath]

----------------------------------------------------------------------------
(* Parameter values: String.prototype.trim, Number(...) and JSON.parse      *)
(*                                                                          *)
(* A parameter value is a sequence of one-character strings.  A JSON value  *)
(* is a record: [t |-> "null"], [t |-> "bool", b], [t |-> "number", m, e]   *)
(* for m * 10^e with m not a multiple of 10 (0 is m = 0, e = 0),            *)
(* [t |-> "string", s], [t |-> "array", items], [t |-> "object", entries].  *)
(* The values the model parses carry no backslash and no control            *)
(* character.                                                               *)

WhiteSpace == {" "}
DigitChars == {"0", "1", "2", "3", "4", "5", "6", "7", "8", "9"}
IsDigit(c) == c \in DigitChars
DigitValue(c) ==
    CHOOSE d \in 0..9 : <<"0", "1", "2", "3", "4", "5", "6", "7", "8", "9">>[d + 1] = c
AllDigits(s) == \A k \in 1..Len(s) : IsDigit(s[k])

\* the least member of a non-empty set of numbers
Least(S) == CHOOSE x \in S : \A y \in S : x <= y
\* the least j >= k with s[j] not in skip, Len(s) + 1 when there is none
FirstNot(s, k, skip) ==
    LET stops == {j \in k..Len(s) : s[j] \notin skip}
    IN IF stops = {} THEN Len(s) + 1 ELSE Least(stops)

\* s.trim()
Trim(s) ==
    LET inked == {k \in 1..Len(s) : s[k] \notin WhiteSpace}
    IN IF inked = {} THEN <<>>
       ELSE SubSeq(s, Least(inked), CHOOSE x \in inked : \A y \in inked : y <= x)

\* Number(s) is not NaN, for a trimmed s: the StringNumericLiteral grammar
IsNumeric(s) ==
    LET IsMantissa(t) ==
            \E d \in 0..Len(t) :
                LET whole == SubSeq(t, 1, d)
                    rest == SubSeq(t, d + 1, Len(t))
                IN /\ AllDigits(whole)
                   /\ \/ rest = <<>> /\ whole # <<>>
                      \/ /\ rest # <<>>
                         /\ rest[1] = "."
                         /\ AllDigits(Tail(rest))
                         /\ whole # <<>> \/ Len(rest) > 1
        IsExponent(t) ==
            /\ t # <<>>
            /\ t[1] \in {"e", "E"}
            /\ LET r == Tail(t)
                   u == IF r # <<>> /\ r[1] \in {"+", "-"} THEN Tail(r) ELSE r
               IN u # <<>> /\ AllDigits(u)
        IsUnsignedDecimal(t) ==
            \/ t = <<"I", "n", "f", "i", "n", "i", "t", "y">>
            \/ \E k \in 1..Len(t) :
                  /\ IsMantissa(SubSeq(t, 1, k))
                  /\ k = Len(t) \/ IsExponent(SubSeq(t, k + 1, Len(t)))
        IsNonDecimal(t) ==
            /\ Len(t) >= 3
            /\ t[1] = "0"
            /\ \/ t[2] \in {"x", "X"} /\
                  \A k \in 3..Len(t) :
                      IsDigit(t[k]) \/ t[k] \in {"a", "b", "c", "d", "e", "f",
                                                "A", "B", "C", "D", "E", "F"}
               \/ t[2] \in {"o", "O"} /\
                  \A k \in 3..Len(t) : t[k] \in {"0", "1", "2", "3", "4", "5", "6", "7"}
               \/ t[2] \in {"b", "B"} /\ \A k \in 3..Len(t) : t[k] \in {"0", "1"}
    IN \/ s = <<>>
       \/ IsNonDecimal(s)
       \/ IsUnsignedDecimal(IF s[1] \in {"+", "-"} THEN Tail(s) ELSE s)

\* JSON values
JsonNull == [t |-> "null"]
JsonBool(b) == [t |-> "bool", b |-> b]
JsonString(s) == [t |-> "string", s |-> s]
JsonArray(items) == [t |-> "array", items |-> items]
JsonObject(entries) == [t |-> "object", entries |-> entries]
\* the number m * 10^e, in the form that tells numbers apart by value
RECURSIVE JsonNumber(_, _)
JsonNumber(m, e) ==
    IF m = 0 THEN [t |-> "number", m |-> 0, e |-> 0]
    ELSE IF m % 10 = 0 THEN JsonNumber(m \div 10, e + 1)
    ELSE [t |-> "number", m |-> m, e |-> e]

\* the number a sequence of digits writes
RECURSIVE ToNat(_)
ToNat(digits) ==
    IF digits = <<>> THEN 0
    ELSE 10 * ToNat(SubSeq(digits, 1, Len(digits) - 1)) + DigitValue(digits[Len(digits)])

\* what a parser returns: failure, or a value and the index after it
ParseFail == [ok |-> FALSE]
ParseOk(v, next) == [ok |-> TRUE, v |-> v, next |-> next]

\* a literal name at index k
ParseLiteral(s, k, word, v) ==
    IF k + Len(word) - 1 <= Len(s) /\ SubSeq(s, k, k + Len(word) - 1) = word
    THEN ParseOk(v, k + Len(word)) ELSE ParseFail

\* a JSON string at index k (s[k] is the opening quote)
ParseString(s, k) ==
    LET closing == {j \in (k + 1)..Len(s) : s[j] = "\""}
    IN IF closing = {} THEN ParseFail
       ELSE LET j == Least(closing)
                body == SubSeq(s, k + 1, j - 1)
            IN IF \E x \in 1..Len(body) : body[x] = "\\" THEN ParseFail
               ELSE ParseOk(JsonString(body), j + 1)

\* a JSON number at index k: -? (0 | [1-9][0-9]*) (. [0-9]+)? ([eE] [+-]? [0-9]+)?
ParseNumber(s, k) ==
    LET Exponent(neg, whole, frac, f) ==
            LET mantissa == (IF neg THEN -1 ELSE 1) * ToNat(whole \o frac) IN
            IF f <= Len(s) /\ s[f] \in {"e", "E"}
            THEN LET q == IF f + 1 <= Len(s) /\ s[f + 1] \in {"+", "-"}
                          THEN f + 2 ELSE f + 1
                     expEnd == FirstNot(s, q, DigitChars)
                 IN IF expEnd = q THEN ParseFail
                    ELSE ParseOk(JsonNumber(mantissa,
                                            (IF s[q - 1] = "-" THEN -1 ELSE 1)
                                                * ToNat(SubSeq(s, q, expEnd - 1))
                                            - Len(frac)),
                                 expEnd)
            ELSE ParseOk(JsonNumber(mantissa, -Len(frac)), f)
        Fraction(neg, whole, w) ==
            IF w <= Len(s) /\ s[w] = "."
            THEN LET fracEnd == FirstNot(s, w + 1, DigitChars)
                 IN IF fracEnd = w + 1 THEN ParseFail
                    ELSE Exponent(neg, whole, SubSeq(s, w + 1, fracEnd - 1), fracEnd)
            ELSE Exponent(neg, whole, <<>>, w)
        Whole(neg, p) ==
            LET wholeEnd == IF p <= Len(s) /\ s[p] = "0" THEN p + 1
                            ELSE FirstNot(s, p, DigitChars)
            IN IF wholeEnd = p THEN ParseFail
               ELSE Fraction(neg, SubSeq(s, p, wholeEnd - 1), wholeEnd)
    IN IF s[k] = "-" THEN Whole(TRUE, k + 1) ELSE Whole(FALSE, k)

\* { ...entries, [key]: v }: a repeated key keeps its place and takes the
\* later value
PutEntry(entries, key, v) ==
    IF \E x \in 1..Len(entries) : entries[x].key = key
    THEN [x \in 1..Len(entries) |->
             IF entries[x].key = key THEN [key |-> key, v |-> v] ELSE entries[x]]
    ELSE Append(entries, [key |-> key, v |-> v])

RECURSIVE ParseValue(_, _)
RECURSIVE ParseElements(_, _, _)
RECURSIVE ParseMembers(_, _, _)

\* a JSON value at index k (white space before it already skipped)
ParseValue(s, k) ==
    IF k > Len(s) THEN ParseFail
    ELSE IF s[k] = "{" THEN
        LET j == FirstNot(s, k + 1, WhiteSpace)
        IN IF j <= Len(s) /\ s[j] = "}" THEN ParseOk(JsonObject(<<>>), j + 1)
           ELSE ParseMembers(s, j, <<>>)
    ELSE IF s[k] = "[" THEN
        LET j == FirstNot(s, k + 1, WhiteSpace)
        IN IF j <= Len(s) /\ s[j] = "]" THEN ParseOk(JsonArray(<<>>), j + 1)
           ELSE ParseElements(s, j, <<>>)
    ELSE IF s[k] = "\"" THEN ParseString(s, k)
    ELSE IF s[k] = "t" THEN ParseLiteral(s, k, <<"t", "r", "u", "e">>, JsonBool(TRUE))
    ELSE IF s[k] = "f" THEN ParseLiteral(s, k, <<"f", "a", "l", "s", "e">>, JsonBool(FALSE))
    ELSE IF s[k] = "n" THEN ParseLiteral(s, k, <<"n", "u", "l", "l">>, JsonNull)
    ELSE IF s[k] = "-" \/ IsDigit(s[k]) THEN ParseNumber(s, k)
    ELSE ParseFail

\* the elements of an array from index k on, up to the closing bracket
ParseElements(s, k, acc) ==
    LET r == ParseValue(s, k) IN
    IF ~r.ok THEN ParseFail
    ELSE LET j == FirstNot(s, r.next, WhiteSpace) IN
         IF j > Len(s) THEN ParseFail
         ELSE IF s[j] = ","
         THEN ParseElements(s, FirstNot(s, j + 1, WhiteSpace), Append(acc, r.v))
         ELSE IF s[j] = "]" THEN ParseOk(JsonArray(Append(acc, r.v)), j + 1)
         ELSE ParseFail

\* the members of an object from index k on, up to the closing brace
ParseMembers(s, k, acc) ==
    IF k > Len(s) \/ s[k] # "\"" THEN ParseFail
    ELSE LET key == ParseString(s, k) IN
         IF ~key.ok THEN ParseFail
         ELSE LET c == FirstNot(s, key.next, WhiteSpace) IN
              IF c > Len(s) \/ s[c] # ":" THEN ParseFail
              ELSE LET r == ParseValue(s, FirstNot(s, c + 1, WhiteSpace)) IN
                   IF ~r.ok THEN ParseFail
                   ELSE LET j == FirstNot(s, r.next, WhiteSpace)
                            entries == PutEntry(acc, key.v.s, r.v)
                        IN IF j > Len(s) THEN ParseFail
                           ELSE IF s[j] = ","
                           THEN ParseMembers(s, FirstNot(s, j + 1, WhiteSpace), entries)
                           ELSE IF s[j] = "}" THEN ParseOk(JsonObject(entries), j + 1)
                           ELSE ParseFail

\* JSON.parse(s): [ok |-> FALSE] stands for the SyntaxError it throws
JsonParse(s) ==
    LET r == ParseValue(s, FirstNot(s, 1, WhiteSpace)) IN
    IF r.ok /\ FirstNot(s, r.next, WhiteSpace) = Len(s) + 1
    THEN [ok |-> TRUE, v |-> r.v] ELSE ParseFail

----------------------------------------------------------------------------
(* Building the input of generate and runWorkflow from the parameter list   *)

\* the condition under which the value is handed to JSON.parse
LooksLikeJson(trimmed) ==
    \/ trimmed # <<>> /\ trimmed[1] = "{" /\ trimmed[Len(trimmed)] = "}"
    \/ trimmed # <<>> /\ trimmed[1] = "[" /\ trimmed[Len(trimmed)] = "]"
    \/ trimmed = <<"t", "r", "u", "e">>
    \/ trimmed = <<"f", "a", "l", "s", "e">>
    \/ IsNumeric(trimmed)

\* the same without the try block around JSON.parse
SniffValueNoCatch(value) ==
    LET trimmed == Trim(value) IN
    IF LooksLikeJson(trimmed)
    THEN IF JsonParse(trimmed).ok
         THEN [threw |-> FALSE, parsedValue |-> JsonParse(trimmed).v]
         ELSE [threw |-> TRUE, parsedValue |-> JsonString(value)]
    ELSE [threw |-> FALSE, parsedValue |-> JsonString(value)]

\* let parsedValue = param.value; try { ... JSON.parse(trimmed) } catch {}
SniffValue(value) ==
    LET trimmed == Trim(value) IN
    IF LooksLikeJson(trimmed)
    THEN IF JsonParse(trimmed).ok
         THEN [threw |-> FALSE, parsedValue |-> JsonParse(trimmed).v]
         ELSE [threw |-> FALSE, parsedValue |-> JsonString(value)]
    ELSE [threw |-> FALSE, parsedValue |-> JsonString(value)]

\* { ...a, ...b }
Merge(a, b) ==
    [k \in DOMAIN a \cup DOMAIN b |-> IF k \in DOMAIN b THEN b[k] ELSE a[k]]

\* the loop over the parameter list; a value is <<>> when undefined
RECURSIVE BuildInput(_, _)
BuildInput(parameters, input) ==
    IF parameters = <<>> THEN [threw |-> FALSE, input |-> input]
    ELSE LET param == Head(parameters) IN
         IF param.parameter # "" /\ param.value # <<>> /\ param.value[1] # <<>>
         THEN LET sniffed == SniffValue(param.value[1]) IN
              IF sniffed.threw THEN [threw |-> TRUE, input |-> input]
              ELSE BuildInput(Tail(parameters),
                              Merge(input, [k \in {param.parameter} |-> sniffed.parsedValue]))
         ELSE BuildInput(Tail(parameters), input)

----------------------------------------------------------------------------
(* Error values and the error normalizer                                    *)
(*                                                                          *)
(* A message is a record: Text(s) is the literal string s, the other forms  *)
(* are the template strings of the code with their interpolated values.     *)
(* The data of an HTTP error response is one of                             *)
(*   [t |-> "undefined"]            no body                                 *)
(*   [t |-> "null"]                 the body null                           *)
(*   [t |-> "string", s |-> ...]    a string body, "" included              *)
(*   [t |-> "object", message, detail, error, title |-> field values]     *)
(*   [t |-> "circular"]             an object without those fields that     *)
(*                                  JSON.stringify throws on                *)
(* and a field value is <<>> (absent), <<"str", s>> or <<"num", n>>.        *)

Text(s) == [tpl |-> "text", s |-> s]

NoData == [t |-> "undefined"]
NullData == [t |-> "null"]
CircularData == [t |-> "circular"]
StrData(s) == [t |-> "string", s |-> s]
ObjData(m, d, e, ti) == [t |-> "object", message |-> m, detail |-> d, error |-> e, title |-> ti]
StrField(s) == <<"str", s>>
NumField(n) == <<"num", n>>

\* typeof v === 'string' && v : a non-empty string field, else falsy
StringCandidate(v) == IF v # <<>> /\ v[1] = "str" /\ v[2] # "" THEN <<v[2]>> ELSE <<>>

\* a || b || c || d over the four candidates
FirstCandidate(cs) ==
    LET found == SelectSeq(cs, LAMBDA c : c # <<>>)
    IN IF found = <<>> THEN <<>> ELSE found[1]

\* if (data): undefined, null and "" are falsy
Truthy(data) ==
    IF data.t = "string" THEN data.s # "" ELSE data.t \in {"object", "circular"}

\* a normalizer that looks at detail before message
getHttpErrorDetailsDetailFirst(error) ==
    IF error.response = Undefined THEN Undefined
    ELSE LET status == error.response[1].status
             data == error.response[1].data
             fallback == IF error.message # Text("") THEN error.message
                         ELSE Text("Request failed")
             candidate ==
                 IF data.t = "object"
                 THEN FirstCandidate(<<StringCandidate(data.detail),
                                       StringCandidate(data.message),
                                       StringCandidate(data.error),
                                       StringCandidate(data.title)>>)
                 ELSE <<>>
             message ==
                 IF ~Truthy(data) THEN fallback
                 ELSE IF data.t = "string" THEN Text(data.s)
                 ELSE IF candidate # <<>> THEN Text(candidate[1])
                 ELSE fallback
         IN Some([message |-> message, status |-> status, data |-> data])

\* getHttpErrorDetails(error): null (<<>>) when the error has no response
getHttpErrorDetails(error) ==
    IF error.response = Undefined THEN Undefined
    ELSE LET status == error.response[1].status
             data == error.response[1].data
             fallback == IF error.message # Text("") THEN error.message
                         ELSE Text("Request failed")
             candidate ==
                 IF data.t = "object"
                 THEN FirstCandidate(<<StringCandidate(data.message),
                                       StringCandidate(data.detail),
                                       StringCandidate(data.error),
                                       StringCandidate(data.title)>>)
                 ELSE <<>>
             message ==
                 IF ~Truthy(data) THEN fallback
                 ELSE IF data.t = "string" THEN Text(data.s)
                 ELSE IF candidate # <<>> THEN Text(candidate[1])
                 ELSE fallback
         IN Some([message |-> message, status |-> status, data |-> data])

\* toJsonValue: JSON.parse(JSON.stringify(value)), undefined when the value is
\* undefined or when JSON.stringify throws
toJsonValue(data) ==
    IF data = NoData \/ data = CircularData THEN Undefined ELSE Some(data)

\* buildApiErrorPayload(details)
buildApiErrorPayload(details) ==
    [message |-> details.message,
     httpCode |-> IF details.status # Undefined THEN Some(ToString(details.status[1])) ELSE Undefined,
     statusCode |-> details.status,
     data |-> toJsonValue(details.data)]

\* new NodeOperationError(node, message, {itemIndex}) thrown by the operations
OperationError(message, idx) ==
    [name |-> "NodeOperationError", message |-> message, response |-> Undefined,
     itemIndex |-> idx]

\* The rejection of an HTTP request by the transport
HttpError(msg, status, data) ==
    [name |-> "HttpError", message |-> Text(msg),
     response |-> Some([status |-> status, data |-> data]), itemIndex |-> Undefined]
NetworkError(msg) ==
    [name |-> "Error", message |-> Text(msg), response |-> Undefined, itemIndex |-> Undefined]
\* what JSON.parse throws
SyntaxError ==
    [name |-> "SyntaxError", message |-> Text("Unexpected token in JSON"),
     response |-> Undefined, itemIndex |-> Undefined]

----------------------------------------------------------------------------
(* The values execute works on *)

QueueHost == <<"https://queue.fal.run/">>
ApiHost == <<"https://api.fal.ai/v1/">>

FluxDev == <<"fal-ai", "/", "flux", "/", "dev">>
Flux == <<"fal-ai", "/", "flux">>
FluxDevSloppy == <<"/", "fal-ai", "/", "/", "flux", "/", "dev", "/">>

GoodWorkflow == <<"user", "/", "wf">>
BadWorkflow == <<"wf">>

\* URLs a queue response may carry (on another host than the derived ones)
GivenStatusUrl == <<"https://alt.fal.run/", "s">>
GivenResponseUrl == <<"https://alt.fal.run/", "r">>
GivenCancelUrl == <<"https://alt.fal.run/", "c">>
LateResponseUrl == <<"https://alt.fal.run/", "r2">>

\* an optional URL field: undefined, the empty string, or a URL
UrlField(u) == {Undefined, Some(<<>>), Some(u)}

KnownStatuses == {"IN_QUEUE", "IN_PROGRESS", "COMPLETED", "FAILED", "CANCELLED"}
Statuses == KnownStatuses \cup {"PAUSED"}

NoParams == [resource |-> "", operation |-> ""]
NoJob == [requestId |-> ""]

\* options.waitForCompletion as read by getNodeParameter: undefined when
\* not configured
BoolOption == {Undefined, Some(TRUE), Some(FALSE)}

Options(waits, polls, maxes) ==
    [waitForCompletion : waits, pollInterval : polls, maxWaitTime : maxes]
NoOptions == [waitForCompletion |-> Undefined, pollInterval |-> Undefined,
              maxWaitTime |-> Undefined]

\* The parameters of a generate item
GenerateParams(models, inputs, opts) ==
    [resource : {"model"}, operation : {"generate"}, model : models,
     workflowId : {<<>>}, parameters : inputs, options : opts]
\* The parameters of a runWorkflow item
RunWorkflowParams(ids, inputs, opts) ==
    [resource : {"workflow"}, operation : {"runWorkflow"}, model : {<<>>},
     workflowId : ids, parameters : inputs, options : opts]
\* The parameters of the other items: single-request workflow operations and
\* selectors the dispatcher does not know
OtherParams(ids) ==
    [resource : {"workflow"}, operation : {"getWorkflow"}, model : {<<>>},
     workflowId : ids, parameters : {<<>>}, options : {NoOptions}]
    \cup
    [resource : {"workflow", "model", "team"}, operation : {"listWorkflows"},
     model : {<<>>}, workflowId : {<<>>}, parameters : {<<>>}, options : {NoOptions}]
    \cup
    [resource : {"workflow"}, operation : {"archiveWorkflow"},
     model : {<<>>}, workflowId : {<<>>}, parameters : {<<>>}, options : {NoOptions}]

\* a wait that ignores the option
WaitForCompletionAlways(opts) == TRUE

\* const waitForCompletion = options.waitForCompletion !== false
WaitForCompletion(opts) == opts.waitForCompletion # Some(FALSE)
\* const pollInterval = ((options.pollInterval as number) || 5) * 1000
PollInterval(opts) == NumOrElse(opts.pollInterval, DefaultPollInterval) * MsPerSecond
\* const maxWaitTime = ((options.maxWaitTime as number) || 600) * 1000
MaxWaitTime(opts) == NumOrElse(opts.maxWaitTime, DefaultMaxWaitTime) * MsPerSecond

IsRun(p) == p.resource = "workflow" /\ p.operation = "runWorkflow"
IsGenerate(p) == p.resource = "model" /\ p.operation = "generate"

\* the URL of the submit POST
SubmitUrl(p) ==
    IF IsGenerate(p)
    THEN QueueHost \o resolveQueuePaths(p.model).submitPath
    ELSE QueueHost \o <<"workflows", Slash>> \o p.workflowId

\* a base anchored at the full submit path
UrlBaseAtSubmitPath(p) ==
    IF IsGenerate(p)
    THEN QueueHost \o resolveQueuePaths(p.model).submitPath
    ELSE QueueHost \o <<"workflows", Slash>> \o p.workflowId

\* what the request URLs are derived from when the response carries none
UrlBase(p) ==
    IF IsGenerate(p)
    THEN QueueHost \o resolveQueuePaths(p.model).baseModelId
    ELSE QueueHost \o <<"workflows", Slash>> \o p.workflowId

RequestUrl(base, requestId) == base \o <<Slash, "requests", Slash, requestId>>
StatusSuffix == <<Slash, "status">>
CancelSuffix == <<Slash, "cancel">>

\* the locals set from the submit response
MakeJob(p, queueResponse, t) ==
    LET requestId == queueResponse.request_id
        derived == RequestUrl(UrlBase(p), requestId)
    IN [queueResponse |-> queueResponse,
        requestId |-> requestId,
        statusUrl |-> OrElse(queueResponse.status_url, derived \o StatusSuffix),
        responseUrl |-> OrElse(queueResponse.response_url, derived),
        cancelUrl |-> OrElse(queueResponse.cancel_url, derived \o CancelSuffix),
        startTime |-> t]

\* the record of immediate-return mode
QueuedRecord(p, j) ==
    Merge(IF IsGenerate(p) THEN [model |-> p.model] ELSE [workflow_id |-> p.workflowId],
          [request_id |-> j.requestId, status |-> "QUEUED", input |-> p.input,
           status_url |-> j.statusUrl, response_url |-> j.responseUrl,
           cancel_url |-> j.cancelUrl])

\* a merge in which the fields of the payload win over request_id and model
CompletedRecordPayloadWins(p, j, payload) ==
    Merge(IF IsGenerate(p)
          THEN [request_id |-> j.requestId, model |-> p.model]
          ELSE [request_id |-> j.requestId, workflow_id |-> p.workflowId],
          payload)

\* a record that merges the payload for generate only
CompletedRecordWorkflowBare(p, j, payload) ==
    IF IsGenerate(p)
    THEN Merge(payload, [request_id |-> j.requestId, model |-> p.model])
    ELSE [request_id |-> j.requestId, workflow_id |-> p.workflowId]

\* a record whose model or workflow_id yields to a field of the payload
CompletedRecordPayloadModel(p, j, payload) ==
    Merge(Merge(IF IsGenerate(p) THEN [model |-> p.model] ELSE [workflow_id |-> p.workflowId],
                payload),
          [request_id |-> j.requestId])

\* the record of a completed job
CompletedRecord(p, j, payload) ==
    Merge(payload,
          IF IsGenerate(p)
          THEN [request_id |-> j.requestId, model |-> p.model]
          ELSE [request_id |-> j.requestId, workflow_id |-> p.workflowId])

\* a result URL that ignores the status payload
ResolvedResponseUrlFromSubmit(sr, j) == j.responseUrl

\* const resolvedResponseUrl = statusResponse.response_url || responseUrl
ResolvedResponseUrl(sr, j) == OrElse(sr.response_url, j.responseUrl)

FailedMessage(p, status, requestId) ==
    [tpl |-> IF IsGenerate(p)
             THEN "Generation did not complete successfully (status: ${status}). Request ID: ${requestId}."
             ELSE "Workflow execution failed (status: ${status}). Request ID: ${requestId}.",
     status |-> status, requestId |-> requestId]
UnexpectedMessage(p, status, requestId) ==
    [tpl |-> IF IsGenerate(p)
             THEN "Unexpected queue status ${status}. Request ID: ${requestId}."
             ELSE "Unexpected workflow status ${status}. Request ID: ${requestId}.",
     status |-> status, requestId |-> requestId]
TimeoutMessage(p, maxWaitTime, requestId) ==
    [tpl |-> IF IsGenerate(p)
             THEN "Generation timed out after ${seconds} seconds. Request ID: ${requestId}."
             ELSE "Workflow timed out after ${seconds} seconds. Request ID: ${requestId}.",
     seconds |-> maxWaitTime \div MsPerSecond, requestId |-> requestId]
InvalidWorkflowMessage == Text("Invalid workflow ID format. Use: username/workflow_name")
UnknownOperationMessage(op) == [tpl |-> "Unknown operation: ${operation}", operation |-> op]
UnknownWorkflowOperationMessage(op) ==
    [tpl |-> "Unknown workflow operation: ${operation}", operation |-> op]
UnknownResourceMessage(r) == [tpl |-> "Unknown resource: ${resource}", resource |-> r]

\* a validation that lets every workflow id through
InvalidWorkflowIdNever(id) == FALSE

\* !workflowId || !workflowId.includes('/')
InvalidWorkflowId(id) == id = <<>> \/ ~(\E k \in 1..Len(id) : id[k] = Slash)

----------------------------------------------------------------------------
(* The per-item boundary of execute: push on success, catch on failure *)

\* returnData.push({ json: result, pairedItem: { item: i } })
OutputRecord(json, idx) == [json |-> json, pairedItem |-> [item |-> idx]]

\* a rethrow that never looks at the transport details
RethrowAsOperationError(error, idx) ==
    [name |-> "NodeOperationError", message |-> error.message,
     payload |-> Undefined, itemIndex |-> idx]

\* The error execute raises for a caught error when continueOnFail() is false
Rethrow(error, idx) ==
    LET httpDetails == getHttpErrorDetails(error) IN
    IF httpDetails # Undefined
    THEN [name |-> "NodeApiError",
          message |-> [tpl |-> "fal.ai request failed (${status}): ${message}",
                       status |-> IF NumOrElse(httpDetails[1].status, 0) # 0
                                  THEN httpDetails[1].status ELSE Undefined,
                       message |-> httpDetails[1].message],
          payload |-> Some(buildApiErrorPayload(httpDetails[1])),
          itemIndex |-> idx]
    ELSE [name |-> "NodeOperationError", message |-> error.message,
          payload |-> Undefined, itemIndex |-> idx]

\* returnData.push(...) at the end of the try block, then the next iteration
Push(json) ==
    /\ returnData' = Append(returnData, OutputRecord(json, i))
    /\ i' = i + 1
    /\ pc' = "loop"
    /\ thrown' = thrown
    /\ caught' = caught

\* a catch block that rethrows whatever continueOnFail() answers
CatchAlwaysRaise(error) ==
    /\ thrown' = Some(Rethrow(error, i))
    /\ pc' = "raised"
    /\ caught' = Some(error)
    /\ UNCHANGED <<returnData, i>>

\* a catch block that records the error whatever continueOnFail() answers
CatchAlwaysContinue(error) ==
    /\ returnData' = Append(returnData, OutputRecord([error |-> error.message], i))
    /\ i' = i + 1
    /\ pc' = "loop"
    /\ thrown' = thrown
    /\ caught' = Some(error)

\* a catch block that records the error and leaves the item to be run again
CatchRunsItemAgain(error) ==
    IF cof
    THEN /\ returnData' = Append(returnData, OutputRecord([error |-> error.message], i))
         /\ pc' = "loop"
         /\ thrown' = thrown
         /\ caught' = Some(error)
         /\ UNCHANGED i
    ELSE /\ thrown' = Some(Rethrow(error, i))
         /\ pc' = "raised"
         /\ caught' = Some(error)
         /\ UNCHANGED <<returnData, i>>

\* a catch block that normalizes before it looks at continueOnFail()
CatchNormalizesFirst(error) ==
    IF cof
    THEN /\ returnData' = Append(returnData,
                                 OutputRecord([error |-> Rethrow(error, i).message], i))
         /\ i' = i + 1
         /\ pc' = "loop"
         /\ thrown' = thrown
         /\ caught' = Some(error)
    ELSE /\ thrown' = Some(Rethrow(error, i))
         /\ pc' = "raised"
         /\ caught' = Some(error)
         /\ UNCHANGED <<returnData, i>>

\* the catch block
Catch(error) ==
    IF cof
    THEN /\ returnData' = Append(returnData, OutputRecord([error |-> error.message], i))
         /\ i' = i + 1
         /\ pc' = "loop"
         /\ thrown' = thrown
         /\ caught' = Some(error)
    ELSE /\ thrown' = Some(Rethrow(error, i))
         /\ pc' = "raised"
         /\ caught' = Some(error)
         /\ UNCHANGED <<returnData, i>>

\* One HTTP request of item i is issued and takes d milliseconds
Request(kind, method, url, d) ==
    /\ reqs' = Append(reqs, [item |-> i, kind |-> kind, method |-> method, url |-> url])
    /\ now' = now + d

----------------------------------------------------------------------------
(* execute, one action per stretch of code between two awaits *)

\* Top of the loop body: read the selectors and parameters of item i and run
\* the synchronous code up to the first request
BeginItem(P) ==
    /\ pc = "loop"
    /\ i < nItems
    /\ \E p \in P :
        LET built == BuildInput(p.parameters, <<>>)
            sniffs == IsGenerate(p) \/ (IsRun(p) /\ ~InvalidWorkflowId(p.workflowId))
        IN
        /\ params' = Merge(p, [input |-> IF sniffs /\ ~built.threw THEN built.input ELSE <<>>])
        /\ job' = NoJob
        /\ statusResponse' = Undefined
        /\ resultResponse' = Undefined
        /\ result' = Undefined
        /\ UNCHANGED <<nItems, cof, now, reqs, pathVars, cacheVars>>
        /\ IF p.resource = "model"
           THEN IF p.operation = "generate"
                THEN IF built.threw
                     THEN Catch(SyntaxError)
                     ELSE pc' = "submit" /\ UNCHANGED <<i, returnData, thrown, caught>>
                ELSE Catch(OperationError(UnknownOperationMessage(p.operation), Undefined))
           ELSE IF p.resource = "workflow"
           THEN IF p.operation = "runWorkflow"
                THEN IF InvalidWorkflowId(p.workflowId)
                     THEN Catch(OperationError(InvalidWorkflowMessage, Undefined))
                     ELSE IF built.threw
                     THEN Catch(SyntaxError)
                     ELSE pc' = "submit" /\ UNCHANGED <<i, returnData, thrown, caught>>
                ELSE IF p.operation = "listWorkflows"
                THEN pc' = "single" /\ UNCHANGED <<i, returnData, thrown, caught>>
                ELSE IF p.operation = "getWorkflow"
                THEN IF InvalidWorkflowId(p.workflowId)
                     THEN Catch(OperationError(InvalidWorkflowMessage, Undefined))
                     ELSE pc' = "single" /\ UNCHANGED <<i, returnData, thrown, caught>>
                ELSE Catch(OperationError(UnknownWorkflowOperationMessage(p.operation), Undefined))
           ELSE Catch(OperationError(UnknownResourceMessage(p.resource), Undefined))

\* an end of the loop that pushes whatever result holds, set or not
AfterLoopNoCheck(res) ==
    Push(IF res = Undefined THEN <<>> ELSE res[1])

\* After the loop: if (!result) throw the timeout error, else push the result
AfterLoop(res) ==
    IF res = Undefined
    THEN Catch(OperationError(
             TimeoutMessage(params, MaxWaitTime(params.options), job.requestId), Undefined))
    ELSE Push(res[1])

\* The submit POST and what follows its response up to the next await
Submit(R, E, L) ==
    /\ pc = "submit"
    /\ \E d \in L : Request("submit", "POST", SubmitUrl(params), d)
    /\ UNCHANGED <<nItems, cof, params, statusResponse, resultResponse, pathVars, cacheVars>>
    /\ \/ \E e \in E : Catch(e) /\ UNCHANGED <<job, result>>
       \/ \E queueResponse \in R :
            LET j == MakeJob(params, queueResponse, now') IN
            /\ job' = j
            /\ IF ~WaitForCompletion(params.options)
               THEN /\ result' = Some(QueuedRecord(params, j))
                    /\ Push(QueuedRecord(params, j))
               ELSE /\ pc' = "while"
                    /\ UNCHANGED <<result, i, returnData, thrown, caught>>

\* branches that know FAILED only, every other status keeps the loop going
StatusBranchFailedOnly(status) ==
    IF status = "COMPLETED" THEN "completed"
    ELSE IF status = "FAILED" THEN "failed"
    ELSE "pending"

\* branches without the guard against unrecognized statuses
StatusBranchNoGuard(status) ==
    IF status = "COMPLETED" THEN "completed"
    ELSE IF status = "FAILED" \/ status = "CANCELLED" THEN "failed"
    ELSE "pending"

\* The if statements on statusResponse.status, in the order of the code
StatusBranch(status) ==
    IF status = "COMPLETED" THEN "completed"
    ELSE IF status = "FAILED" \/ status = "CANCELLED" THEN "failed"
    ELSE IF status # "IN_QUEUE" /\ status # "IN_PROGRESS" THEN "unexpected"
    ELSE "pending"

\* a loop condition that still holds at the deadline itself
LoopConditionInclusive == now - job.startTime <= MaxWaitTime(params.options)

\* Date.now() - startTime < maxWaitTime
LoopCondition == now - job.startTime < MaxWaitTime(params.options)

\* while (Date.now() - startTime < maxWaitTime): the status GET and the
\* branches on its response
Poll(S, E, L) ==
    /\ pc = "while"
    /\ LoopCondition
    /\ \E d \in L : Request("status", "GET", job.statusUrl, d)
    /\ UNCHANGED <<nItems, cof, params, job, resultResponse, result, pathVars, cacheVars>>
    /\ \/ \E e \in E : Catch(e) /\ UNCHANGED statusResponse
       \/ \E sr \in S :
            /\ statusResponse' = Some(sr)
            /\ CASE StatusBranch(sr.status) = "completed" ->
                      pc' = "fetch" /\ UNCHANGED <<i, returnData, thrown, caught>>
                 [] StatusBranch(sr.status) = "failed" ->
                      Catch(OperationError(
                          FailedMessage(params, sr.status, job.requestId), Some(i)))
                 [] StatusBranch(sr.status) = "unexpected" ->
                      Catch(OperationError(
                          UnexpectedMessage(params, sr.status, job.requestId), Some(i)))
                 [] OTHER ->
                      pc' = "sleep" /\ UNCHANGED <<i, returnData, thrown, caught>>

\* a loop exit that asks the queue to cancel the job it gives up on
LoopExitCancels ==
    /\ pc = "while"
    /\ ~LoopCondition
    /\ AfterLoop(result)
    /\ Request("cancel", "PUT", job.cancelUrl, 0)
    /\ UNCHANGED <<nItems, cof, itemVars, pathVars, cacheVars>>

\* The loop condition is false: the loop ends with result unset
LoopExit ==
    /\ pc = "while"
    /\ ~LoopCondition
    /\ AfterLoop(result)
    /\ UNCHANGED <<nItems, cof, itemVars, now, reqs, pathVars, cacheVars>>

\* a sleep that is not awaited: the item loop moves on while the job is pending
SleepStartsNextItem ==
    /\ pc = "sleep"
    /\ now' = now + PollInterval(params.options)
    /\ statusResponse' = Undefined
    /\ pc' = "loop"
    /\ i' = i + 1
    /\ UNCHANGED <<nItems, cof, params, job, resultResponse, result,
                   returnData, thrown, caught, reqs, pathVars, cacheVars>>

\* a sleep whose timer never fires
SleepNeverEnds ==
    /\ pc = "sleep"
    /\ FALSE
    /\ UNCHANGED vars

\* a sleep cut short at the deadline of the loop
SleepUntilDeadline ==
    /\ pc = "sleep"
    /\ now' = IF now + PollInterval(params.options) > job.startTime + MaxWaitTime(params.options)
              THEN job.startTime + MaxWaitTime(params.options)
              ELSE now + PollInterval(params.options)
    /\ statusResponse' = Undefined
    /\ pc' = "while"
    /\ UNCHANGED <<nItems, cof, i, params, job, resultResponse, result,
                   returnData, thrown, caught, reqs, pathVars, cacheVars>>

\* await sleep(pollInterval), then the next iteration
Sleep ==
    /\ pc = "sleep"
    /\ now' = now + PollInterval(params.options)
    /\ statusResponse' = Undefined
    /\ pc' = "while"
    /\ UNCHANGED <<nItems, cof, i, params, job, resultResponse, result,
                   returnData, thrown, caught, reqs, pathVars, cacheVars>>

\* The result GET of the COMPLETED branch, the merge, break, and the check
\* after the loop
FetchResult(PL, E, L) ==
    /\ pc = "fetch"
    /\ \E d \in L :
         Request("result", "GET", ResolvedResponseUrl(statusResponse[1], job), d)
    /\ UNCHANGED <<nItems, cof, params, job, statusResponse, pathVars, cacheVars>>
    /\ \/ \E e \in E : Catch(e) /\ UNCHANGED <<resultResponse, result>>
       \/ \E payload \in PL :
            /\ resultResponse' = Some(payload)
            /\ result' = Some(CompletedRecord(params, job, payload))
            /\ AfterLoop(result')

\* listWorkflows / getWorkflow: one GET whose response is the result
Single(PL, E, L) ==
    /\ pc = "single"
    /\ \E d \in L :
         Request("single", "GET",
                 IF params.operation = "getWorkflow"
                 THEN ApiHost \o <<"workflows", Slash>> \o params.workflowId
                 ELSE ApiHost \o <<"workflows">>, d)
    /\ UNCHANGED <<nItems, cof, params, job, statusResponse, resultResponse, pathVars, cacheVars>>
    /\ \/ \E e \in E : Catch(e) /\ UNCHANGED result
       \/ \E payload \in PL : result' = Some(payload) /\ Push(payload)

\* return [returnData]
Return ==
    /\ pc = "loop"
    /\ i = nItems
    /\ pc' = "returned"
    /\ UNCHANGED <<nItems, cof, i, itemVars, now, returnData, thrown, caught, reqs, pathVars, cacheVars>>

----------------------------------------------------------------------------
(* parseOpenAPISchema                                                       *)
(*                                                                          *)
(* An object whose key order matters (components.schemas, properties) is a  *)
(* sequence of entries in Object.entries order.  A component name is a      *)
(* sequence of words, so that endsWith and includes are decided on words.   *)

EndsWith(name, word) == name # <<>> /\ name[Len(name)] = word
Includes(name, word) == \E k \in 1..Len(name) : name[k] = word

\* `a || b` on two optional strings, the result again optional
OptOr(a, b) == IF a # <<>> /\ a[1] # "" THEN a ELSE b
\* o?.f
Field(o, f) == IF o # <<>> THEN o[1][f] ELSE <<>>

\* the for loop over Object.entries(schemas): a later match overwrites an
\* earlier one
RECURSIVE PickSchemas(_, _, _)
PickSchemas(entries, inputSchema, outputSchema) ==
    IF entries = <<>> THEN [inputSchema |-> inputSchema, outputSchema |-> outputSchema]
    ELSE LET e == Head(entries) IN
         IF EndsWith(e.name, "Input") /\ ~Includes(e.name, "Queue")
         THEN PickSchemas(Tail(entries), <<e.schema>>, outputSchema)
         ELSE IF EndsWith(e.name, "Output") /\ ~Includes(e.name, "Queue")
         THEN PickSchemas(Tail(entries), inputSchema, <<e.schema>>)
         ELSE PickSchemas(Tail(entries), inputSchema, outputSchema)

\* schema.properties[propName]
PropertyOf(properties, propName) ==
    LET found == SelectSeq(properties, LAMBDA e : e.name = propName)
    IN IF found = <<>> THEN <<>> ELSE <<found[1].prop>>
\* Object.keys(schema.properties)
Keys(properties) == [k \in 1..Len(properties) |-> properties[k].name]

ResolvedType(prop) ==
    IF prop.type = <<"array">> THEN "array"
    ELSE IF prop.allOfRef THEN "string"
    ELSE IF prop.type # <<>> /\ prop.type[1] # "" THEN prop.type[1]
    ELSE "string"

ParsedParameter(propName, prop, required) ==
    [name |-> propName,
     type |-> ResolvedType(prop),
     title |-> prop.title,
     description |-> prop.description,
     required |-> \E k \in 1..Len(required) : required[k] = propName,
     default |-> prop.default,
     enum |-> prop.enum,
     example |-> IF prop.examples # <<>> /\ prop.examples[1] # <<>>
                 THEN <<prop.examples[1][1]>> ELSE <<>>,
     minimum |-> prop.minimum,
     maximum |-> prop.maximum,
     minLength |-> prop.minLength,
     maxLength |-> prop.maxLength]

parseProperties(schema) ==
    IF schema = <<>> \/ schema[1].properties = <<>> THEN <<>>
    ELSE LET properties == schema[1].properties[1]
             required == IF schema[1].required # <<>> THEN schema[1].required[1] ELSE <<>>
             orderProps == IF schema[1].xFalOrderProperties # <<>>
                           THEN schema[1].xFalOrderProperties[1]
                           ELSE Keys(properties)
             kept == SelectSeq(orderProps, LAMBDA n : PropertyOf(properties, n) # <<>>)
         IN [k \in 1..Len(kept) |->
                ParsedParameter(kept[k], PropertyOf(properties, kept[k])[1], required)]

parseOpenAPISchema(model) ==
    LET openapi == model.openapi
        metadata == model.metadata
        falMetadata == Field(openapi, "xFalMetadata")
        schemas == IF Field(openapi, "schemas") # <<>> THEN openapi[1].schemas[1] ELSE <<>>
        picked == PickSchemas(schemas, <<>>, <<>>)
    IN [model |-> model.endpoint_id,
        displayName |-> Field(metadata, "display_name"),
        category |-> OptOr(Field(metadata, "category"), Field(falMetadata, "category")),
        description |-> OptOr(Field(metadata, "description"),
                              Field(openapi, "infoDescription")),
        playgroundUrl |-> Field(falMetadata, "playgroundUrl"),
        documentationUrl |-> Field(falMetadata, "documentationUrl"),
        inputParameters |-> parseProperties(picked.inputSchema),
        outputParameters |-> parseProperties(picked.outputSchema)]

----------------------------------------------------------------------------
(* The schema cache and getModelSchema                                      *)
(*                                                                          *)
(* A descriptor object is [oid, info]: oid tells two objects with equal     *)
(* contents apart.  getModelSchema is asynchronous, so several calls may be *)
(* in flight; each caller has one call at a time.                           *)

\* most calls made in all
MaxCalls == 3
\* how far the clock runs, in steps of CacheTick
MaxTicks == 3

CACHE_TTL == 10 * 60 * 1000
\* the clock of this specification advances by half the time to live
CacheTick == CACHE_TTL \div 2

\* two executions call getModelSchema concurrently
Callers == {1, 2}
SchemaIds == {<<"fal-ai", "/", "flux">>, <<"fal-ai", "/", "flux", "/", "dev">>}

\* the null getModelSchema returns
Null == [null |-> TRUE]

NoCall == [pc |-> "idle", modelId |-> <<>>, cached |-> <<>>, response |-> <<>>,
           ret |-> <<>>, n |-> 0]

InitCache ==
    /\ modelSchemaCache = [m \in SchemaIds |-> <<>>]
    /\ calls = [c \in Callers |-> NoCall]
    /\ heap = 0

\* the number of calls made so far
CallsMade == calls[1].n + calls[2].n

\* a check that still accepts an entry of exactly the time to live
CacheHitInclusive(cached, t) == cached # <<>> /\ t - cached[1].timestamp <= CACHE_TTL

\* cached && Date.now() - cached.timestamp < CACHE_TTL
CacheHit(cached, t) == cached # <<>> /\ t - cached[1].timestamp < CACHE_TTL

ModelsUrl(m) == <<"https://api.fal.ai/v1/", "models", "?endpoint_id=">> \o m

\* getModelSchema(m) up to its return on a hit or to the await of the request
SchemaCall(c, m) ==
    /\ pc = "cache"
    /\ calls[c].pc \in {"idle", "returned"}
    /\ CallsMade < MaxCalls
    /\ LET cached == modelSchemaCache[m] IN
       IF CacheHit(cached, now)
       THEN /\ calls' = [calls EXCEPT ![c] =
                           [pc |-> "returned", modelId |-> m, cached |-> cached,
                            response |-> <<>>, ret |-> <<cached[1].data>>, n |-> @.n + 1]]
            /\ reqs' = reqs
       ELSE /\ calls' = [calls EXCEPT ![c] =
                           [pc |-> "fetching", modelId |-> m, cached |-> cached,
                            response |-> <<>>, ret |-> <<>>, n |-> @.n + 1]]
            /\ reqs' = Append(reqs, [item |-> c, kind |-> "models", method |-> "GET",
                                     url |-> ModelsUrl(m)])
    /\ UNCHANGED <<modelSchemaCache, heap, now, nItems, cof, i, pc, itemVars,
                   returnData, thrown, caught, pathVars>>

\* a failure path that also drops the entry of the model
SchemaFailedDropsEntry(c, outcome) ==
    /\ calls' = [calls EXCEPT ![c].pc = "returned", ![c].response = outcome,
                              ![c].ret = <<Null>>]
    /\ modelSchemaCache' = [modelSchemaCache EXCEPT ![calls[c].modelId] = <<>>]
    /\ heap' = heap

\* a failure path that renews the timestamp of the entry it finds
SchemaFailedTouchesEntry(c, outcome) ==
    /\ calls' = [calls EXCEPT ![c].pc = "returned", ![c].response = outcome,
                              ![c].ret = <<Null>>]
    /\ modelSchemaCache' =
          [modelSchemaCache EXCEPT ![calls[c].modelId] =
              IF @ = <<>> THEN @ ELSE <<[@[1] EXCEPT !.timestamp = now]>>]
    /\ heap' = heap

\* return null: no models in the response, or the catch block; outcome is
\* <<>> for a rejected request and <<response>> otherwise
SchemaFailed(c, outcome) ==
    /\ calls' = [calls EXCEPT ![c].pc = "returned", ![c].response = outcome,
                              ![c].ret = <<Null>>]
    /\ modelSchemaCache' = modelSchemaCache
    /\ heap' = heap

\* the request of caller c is answered: the rest of getModelSchema
SchemaResponse(c, RS) ==
    /\ pc = "cache"
    /\ calls[c].pc = "fetching"
    /\ \/ SchemaFailed(c, <<>>)
       \/ \E response \in RS[calls[c].modelId] :
            IF response.models = <<>> \/ response.models[1] = <<>>
            THEN SchemaFailed(c, <<response>>)
            ELSE LET parsedInfo == [oid |-> heap + 1,
                                    info |-> parseOpenAPISchema(response.models[1][1])]
                 IN /\ modelSchemaCache' =
                          [modelSchemaCache EXCEPT ![calls[c].modelId] =
                              <<[data |-> parsedInfo, timestamp |-> now]>>]
                    /\ heap' = heap + 1
                    /\ calls' = [calls EXCEPT ![c].pc = "returned",
                                              ![c].response = <<response>>,
                                              ![c].ret = <<parsedInfo>>]
    /\ UNCHANGED <<reqs, now, nItems, cof, i, pc, itemVars, returnData, thrown, caught, pathVars>>

\* time passes
Tick ==
    /\ pc = "cache"
    /\ now < MaxTicks * CacheTick
    /\ now' = now + CacheTick
    /\ UNCHANGED <<cacheVars, reqs, nItems, cof, i, pc, itemVars, returnData, thrown,
                   caught, pathVars>>

\* what GET /v1/models?endpoint_id=m may answer: no models field, an empty
\* list, or a model with metadata and an OpenAPI document followed by one
\* without either
ModelsResponses(m) ==
    LET Prop(type, allOfRef, default) ==
            [type |-> type, allOfRef |-> allOfRef, title |-> <<>>, description |-> <<>>,
             default |-> default, enum |-> <<>>, examples |-> <<>>, minimum |-> <<>>,
             maximum |-> <<>>, minLength |-> <<>>, maxLength |-> <<>>]
        RichModel ==
            [endpoint_id |-> m,
             metadata |-> <<[display_name |-> <<"FLUX">>, category |-> <<"">>,
                             description |-> <<>>]>>,
             openapi |-> <<[infoDescription |-> <<"text to image">>,
                            xFalMetadata |-> <<[category |-> <<"text-to-image">>,
                                                playgroundUrl |-> <<"https://fal.ai/models/x">>,
                                                documentationUrl |-> <<>>]>>,
                            schemas |-> <<<<
                                [name |-> <<"Queue", "Status", "Input">>,
                                 schema |-> [properties |-> <<>>, required |-> <<>>,
                                             xFalOrderProperties |-> <<>>]],
                                [name |-> <<"Flux", "Input">>,
                                 schema |-> [properties |-> <<<<
                                                [name |-> "prompt", prop |-> Prop(<<"string">>, FALSE, <<>>)],
                                                [name |-> "image", prop |-> Prop(<<>>, TRUE, <<>>)],
                                                [name |-> "num_images", prop |-> Prop(<<"integer">>, FALSE, <<1>>)]>>>>,
                                             required |-> <<<<"prompt">>>>,
                                             xFalOrderProperties |->
                                                 <<<<"prompt", "num_images", "seed", "image">>>>]],
                                [name |-> <<"Flux", "Output">>,
                                 schema |-> [properties |-> <<<<
                                                [name |-> "images", prop |-> Prop(<<"array">>, TRUE, <<>>)]>>>>,
                                             required |-> <<>>,
                                             xFalOrderProperties |-> <<>>]]>>>>]>>]
        BareModel == [endpoint_id |-> m, metadata |-> <<>>, openapi |-> <<>>]
    IN {[models |-> <<>>], [models |-> <<<<>>>>],
        [models |-> <<<<RichModel, BareModel>>>>]}

----------------------------------------------------------------------------
(* What the host and the remote queue may supply *)

\* a request is answered at once or takes a second
Latencies == {0, MsPerSecond}

HttpErrors ==
    {HttpError("Request failed with status code 422", Some(422),
               ObjData(Undefined, StrField("bad input"), Undefined, Undefined)),
     NetworkError("connect ECONNREFUSED")}

QueueResponses ==
    [request_id : {"r1", "r2"}, status_url : UrlField(GivenStatusUrl),
     response_url : UrlField(GivenResponseUrl), cancel_url : UrlField(GivenCancelUrl)]

StatusResponses ==
    [status : Statuses, response_url : {Undefined, Some(LateResponseUrl)}]

ResultPayloads ==
    {[output |-> "x"],
     [output |-> "y", request_id |-> "r0", model |-> <<"other">>,
      workflow_id |-> <<"other">>]}

\* the parameter list {prompt: "a cat"}
Inputs == {<<[parameter |-> "prompt", value |-> <<<<"a", " ", "c", "a", "t">>>>]>>}

\* configured waits: a poll interval of 0 (which the code replaces by the
\* default) up to MaxPollOpt seconds, and a max wait of 1 or MaxWaitOpt
\* seconds; the max wait is always configured, so that a run stays short
WaitOptions ==
    Options(BoolOption, {Some(n) : n \in 0..MaxPollOpt}, {Some(1), Some(MaxWaitOpt)})

ItemParams ==
    GenerateParams({FluxDev, Flux, FluxDevSloppy}, Inputs, WaitOptions)
    \cup RunWorkflowParams({GoodWorkflow, BadWorkflow, <<>>}, Inputs, WaitOptions)
    \cup OtherParams({GoodWorkflow, BadWorkflow})

----------------------------------------------------------------------------
(* Specification of execute on a batch of at most one item *)

InitExec(sizes) ==
    /\ nItems \in sizes
    /\ cof \in BOOLEAN
    /\ i = 0
    /\ pc = "loop"
    /\ params = NoParams
    /\ job = NoJob
    /\ statusResponse = Undefined
    /\ resultResponse = Undefined
    /\ result = Undefined
    /\ now = 0
    /\ returnData = <<>>
    /\ thrown = Undefined
    /\ caught = Undefined
    /\ reqs = <<>>
    /\ modelId = <<>>
    /\ paths = Undefined
    /\ InitCache

Init == InitExec({0, 1})

Next ==
    \/ BeginItem(ItemParams)
    \/ Submit(QueueResponses, HttpErrors, Latencies)
    \/ Poll(StatusResponses, HttpErrors, Latencies)
    \/ LoopExit
    \/ Sleep
    \/ FetchResult(ResultPayloads, HttpErrors, Latencies)
    \/ Single(ResultPayloads, HttpErrors, Latencies)
    \/ Return

Spec == Init /\ [][Next]_vars

----------------------------------------------------------------------------
(* Specification of execute on batches of up to MaxItems items, with fewer  *)
(* variants of each item                                                    *)

BatchOptions == Options({Some(TRUE), Some(FALSE)}, {Some(1)}, {Some(2)})

BatchParams ==
    GenerateParams({FluxDev}, Inputs, BatchOptions)
    \cup RunWorkflowParams({GoodWorkflow, BadWorkflow}, Inputs, BatchOptions)
    \cup OtherParams({GoodWorkflow, BadWorkflow})

BatchQueueResponses ==
    {[request_id |-> r, status_url |-> Undefined, response_url |-> Undefined,
      cancel_url |-> Undefined] : r \in {"r1", "r2"}}

BatchStatusResponses == [status : Statuses, response_url : {Undefined}]

BatchPayloads == {[output |-> "x"]}

InitBatch == InitExec(0..MaxItems)

NextBatch ==
    \/ BeginItem(BatchParams)
    \/ Submit(BatchQueueResponses, HttpErrors, {0})
    \/ Poll(BatchStatusResponses, HttpErrors, {0})
    \/ LoopExit
    \/ Sleep
    \/ FetchResult(BatchPayloads, HttpErrors, {0})
    \/ Single(BatchPayloads, HttpErrors, {0})
    \/ Return

SpecBatch == InitBatch /\ [][NextBatch]_vars

----------------------------------------------------------------------------
(* Specification of execute on a batch of at most one item, with every      *)
(* shape of upstream failure                                                *)

ErrorBodies ==
    {NoData, NullData, StrData(""), StrData("upstream said no"), CircularData}
    \cup {ObjData(m, d, e, ti) :
             m \in {Undefined, StrField("from message"), StrField(""), NumField(7)},
             d \in {Undefined, StrField("bad input"), NumField(7)},
             e \in {Undefined, StrField("from error")},
             ti \in {Undefined, StrField("from title")}}

RichHttpErrors ==
    {HttpError(msg, st, data) :
        msg \in {"Request failed with status code", ""},
        st \in {Undefined, Some(422), Some(500)},
        data \in ErrorBodies}
    \cup {NetworkError("connect ECONNREFUSED")}

NextErrors ==
    \/ BeginItem(BatchParams)
    \/ Submit(BatchQueueResponses, RichHttpErrors, {0})
    \/ Poll(BatchStatusResponses, RichHttpErrors, {0})
    \/ LoopExit
    \/ Sleep
    \/ FetchResult(BatchPayloads, RichHttpErrors, {0})
    \/ Single(BatchPayloads, RichHttpErrors, {0})
    \/ Return

SpecErrors == Init /\ [][NextErrors]_vars

----------------------------------------------------------------------------
(* Specification of the parameter sniffing of execute: one item whose       *)
(* parameter list holds one value out of every string of up to MaxValueLen  *)
(* characters of SniffChars and of some longer ones                         *)

\* longest value enumerated in full
MaxValueLen == 4

SniffChars == {" ", "{", "}", "[", "]", ",", "1", "0", "-", ".", "e"}

\* the strings of up to n characters out of atoms
RECURSIVE StringsUpTo(_, _)
StringsUpTo(atoms, n) ==
    IF n = 0 THEN {<<>>}
    ELSE LET shorter == StringsUpTo(atoms, n - 1)
         IN shorter \cup {Append(s, c) : s \in shorter, c \in atoms}

SniffParams ==
    LET LongerValues ==
        {<<"4", "2">>,
         <<"t", "r", "u", "e">>,
         <<"f", "a", "l", "s", "e">>,
         <<"[", "1", ",", "2", "]">>,
         <<"h", "e", "l", "l", "o">>,
         <<"{", "i", "n", "v", "a", "l", "i", "d">>,
         <<"{", "i", "n", "v", "a", "l", "i", "d", "}">>,
         <<" ", "4", "2", " ">>,
         <<"0", "x", "1", "0">>,
         <<"I", "n", "f", "i", "n", "i", "t", "y">>,
         <<"n", "u", "l", "l">>,
         <<"{", "\"", "a", "\"", ":", "1", "}">>,
         <<"1", "e", "3">>,
         <<"0", "4", "2">>,
         <<"\"", "h", "i", "\"">>,
         <<"T", "r", "u", "e">>,
         <<"-", "0">>,
         <<"[", "1", ",", " ", "2", " ", "]">>,
         <<"{", "\"", "a", "\"", ":", "[", "t", "r", "u", "e", ",", "n", "u", "l", "l", "]", ",", "\"", "a", "\"", ":", "-", "1", ".", "5", "}">>}
    IN
       GenerateParams({Flux},
                      {<<[parameter |-> "p", value |-> <<v>>]>> : v \in StringsUpTo(SniffChars, MaxValueLen)}
                      \cup {<<[parameter |-> n, value |-> v]>> :
                               n \in {"p", ""}, v \in {Undefined} \cup {<<w>> : w \in LongerValues}}
                      \cup {<<[parameter |-> "p", value |-> <<<<"1">>>>],
                              [parameter |-> "q", value |-> <<<<"{", "1">>>>],
                              [parameter |-> "p", value |-> <<<<"[", "]">>>>]>>},
                      Options({Some(FALSE)}, {Undefined}, {Undefined}))
       \cup RunWorkflowParams({GoodWorkflow, BadWorkflow},
                              {<<[parameter |-> "p", value |-> <<w>>]>> : w \in LongerValues},
                              Options({Some(FALSE)}, {Undefined}, {Undefined}))

SniffQueueResponses ==
    {[request_id |-> "r1", status_url |-> Undefined, response_url |-> Undefined,
      cancel_url |-> Undefined]}

NextSniff ==
    \/ BeginItem(SniffParams)
    \/ Submit(SniffQueueResponses, {}, {0})
    \/ Return

InitSniff == InitExec({1}) /\ ~cof

SpecSniff == InitSniff /\ [][NextSniff]_vars

----------------------------------------------------------------------------
(* Specification of execute on one generate or runWorkflow item under every *)
(* combination of options, set or not, with requests that take no time      *)

OptionParams ==
    LET AllOptions ==
            Options({Undefined, Some(TRUE), Some(FALSE)},
                    {Undefined} \cup {Some(n) : n \in 0..MaxPollOpt},
                    {Undefined} \cup {Some(n) : n \in 0..MaxWaitOpt})
    IN GenerateParams({FluxDev}, Inputs, AllOptions)
       \cup RunWorkflowParams({GoodWorkflow}, Inputs, AllOptions)

NextOptions ==
    \/ BeginItem(OptionParams)
    \/ Submit(SniffQueueResponses, {}, {0})
    \/ Poll([status : {"IN_QUEUE", "IN_PROGRESS", "COMPLETED"}, response_url : {Undefined}],
            {}, {0})
    \/ LoopExit
    \/ Sleep
    \/ FetchResult(BatchPayloads, {}, {0})
    \/ Return

SpecOptions == InitExec({1}) /\ [][NextOptions]_vars

----------------------------------------------------------------------------
(* Specification of execute on one generate or runWorkflow item whose awaits *)
(* all settle: every request returns, with a response or an error, after 0   *)
(* or 1 s, every sleep ends, and the synchronous code after an await runs    *)

NextLive ==
    \/ BeginItem(GenerateParams({FluxDev}, Inputs, WaitOptions)
                 \cup RunWorkflowParams({GoodWorkflow}, Inputs, WaitOptions))
    \/ Submit(SniffQueueResponses, HttpErrors, Latencies)
    \/ Poll(BatchStatusResponses, HttpErrors, Latencies)
    \/ LoopExit
    \/ Sleep
    \/ FetchResult(BatchPayloads, HttpErrors, Latencies)
    \/ Return

SpecLive ==
    /\ InitExec({1})
    /\ [][NextLive]_vars
    /\ WF_vars(Submit(SniffQueueResponses, HttpErrors, Latencies))
    /\ WF_vars(Poll(BatchStatusResponses, HttpErrors, Latencies))
    /\ WF_vars(LoopExit)
    /\ WF_vars(Sleep)
    /\ WF_vars(FetchResult(BatchPayloads, HttpErrors, Latencies))

----------------------------------------------------------------------------
(* Specification of resolveQueuePaths on every model id of up to MaxIdLen   *)
(* atoms                                                                    *)

PathAtoms == {Slash, "a", "b"}

InitPaths ==
    /\ modelId \in StringsUpTo(PathAtoms, MaxIdLen)
    /\ paths = Undefined
    /\ nItems = 0
    /\ cof = FALSE
    /\ i = 0
    /\ pc = "call"
    /\ params = NoParams
    /\ job = NoJob
    /\ statusResponse = Undefined
    /\ resultResponse = Undefined
    /\ result = Undefined
    /\ now = 0
    /\ returnData = <<>>
    /\ thrown = Undefined
    /\ caught = Undefined
    /\ reqs = <<>>
    /\ InitCache

\* const { baseModelId, submitPath } = resolveQueuePaths(model)
Resolve ==
    /\ pc = "call"
    /\ paths' = Some(resolveQueuePaths(modelId))
    /\ pc' = "done"
    /\ UNCHANGED <<modelId, nItems, cof, i, itemVars, now, returnData, thrown, caught, reqs, cacheVars>>

NextPaths == Resolve

SpecPaths == InitPaths /\ [][NextPaths]_vars

----------------------------------------------------------------------------
(* Specification of concurrent getModelSchema calls on the shared cache     *)

InitSchema ==
    /\ InitCache
    /\ nItems = 0
    /\ cof = FALSE
    /\ i = 0
    /\ pc = "cache"
    /\ params = NoParams
    /\ job = NoJob
    /\ statusResponse = Undefined
    /\ resultResponse = Undefined
    /\ result = Undefined
    /\ now = 0
    /\ returnData = <<>>
    /\ thrown = Undefined
    /\ caught = Undefined
    /\ reqs = <<>>
    /\ modelId = <<>>
    /\ paths = Undefined

NextSchema ==
    \/ \E c \in Callers, m \in SchemaIds : SchemaCall(c, m)
    \/ \E c \in Callers : SchemaResponse(c, [m \in SchemaIds |-> ModelsResponses(m)])
    \/ Tick

SpecSchema == InitSchema /\ [][NextSchema]_vars

----------------------------------------------------------------------------
(* Specification of getModelSchema called by one execution for one model,   *)
(* over OpenAPI documents whose Input and Output components vary in their   *)
(* properties, required list and x-fal-order-properties                     *)

\* what GET /v1/models?endpoint_id=m may answer: no model, or a model whose
\* Input component has one or two properties in either declaration order, a
\* required list (absent, empty, naming a property or naming a stranger too)
\* and an order hint (absent, empty, a permutation of the property names, a
\* part of them, with a stranger, with a repetition)
ParseResponses(m) ==
    LET Prop(name, type) ==
            [name |-> name,
             prop |-> [type |-> type, allOfRef |-> FALSE, title |-> <<>>,
                       description |-> <<>>, default |-> <<>>, enum |-> <<>>,
                       examples |-> <<>>, minimum |-> <<>>, maximum |-> <<>>,
                       minLength |-> <<>>, maxLength |-> <<>>]]
        Prompt == Prop("prompt", <<"string">>)
        Seed == Prop("seed", <<"integer">>)
        Components ==
            [properties : {<<<<Prompt>>>>, <<<<Prompt, Seed>>>>, <<<<Seed, Prompt>>>>},
             required : {<<>>, <<<<>>>>, <<<<"prompt">>>>, <<<<"seed", "ghost">>>>},
             xFalOrderProperties :
                 {<<>>, <<<<>>>>, <<<<"prompt">>>>, <<<<"seed", "prompt">>>>,
                  <<<<"prompt", "seed">>>>, <<<<"seed", "ghost", "prompt">>>>,
                  <<<<"prompt", "prompt">>>>}]
        OutputComponent ==
            [properties |-> <<<<Prop("images", <<"array">>), Seed>>>>,
             required |-> <<<<"images">>>>, xFalOrderProperties |-> <<>>]
        Model(input) ==
            [endpoint_id |-> m, metadata |-> <<>>,
             openapi |-> <<[infoDescription |-> <<>>, xFalMetadata |-> <<>>,
                            schemas |-> <<<<[name |-> <<"Flux", "Input">>, schema |-> input],
                                            [name |-> <<"Flux", "Output">>,
                                             schema |-> OutputComponent]>>>>]>>]
    IN {[models |-> <<>>]} \cup {[models |-> <<<<Model(c)>>>>] : c \in Components}

NextParse ==
    \/ SchemaCall(1, <<"fal-ai", "/", "flux">>)
    \/ SchemaResponse(1, [m \in SchemaIds |-> ParseResponses(m)])

SpecParse == InitSchema /\ [][NextParse]_vars

----------------------------------------------------------------------------
(* Vocabulary of the properties *)

\* The item whose locals the state holds has ended: its record is pushed or
\* execute has raised its error
ItemDone == params # NoParams /\ pc \in {"loop", "returned", "raised"}
ItemIndex == IF pc = "raised" THEN i ELSE i - 1
LastRecord == returnData[Len(returnData)]

\* The item that ended did so with the error message msg
ItemFailedWith(msg) ==
    /\ ItemDone
    /\ IF pc = "raised"
       THEN thrown # Undefined /\ thrown[1].message = msg
       ELSE /\ Len(returnData) = i
            /\ DOMAIN LastRecord.json = {"error"}
            /\ LastRecord.json.error = msg

IsSuffix(t, s) == Len(t) <= Len(s) /\ SubSeq(s, Len(s) - Len(t) + 1, Len(s)) = t

ReqsOf(k, kind) == SelectSeq(reqs, LAMBDA r : r.item = k /\ r.kind = kind)
StatusPolls(log) == SelectSeq(log, LAMBDA r : r.kind = "status")
ResultGets(log) == SelectSeq(log, LAMBDA r : r.kind = "result")
Waits(p) == p.options.waitForCompletion # Some(FALSE)
SawStatus(S) == statusResponse # Undefined /\ statusResponse[1].status \in S

----------------------------------------------------------------------------
(* C1: in generate with wait-for-completion enabled, once the status polls  *)
(* have answered IN_QUEUE / IN_PROGRESS and then COMPLETED and the result   *)
(* is fetched, the returned record is the fetched payload with request_id   *)
(* set to the submitted request id and model to the configured model id,    *)
(* exactly one result GET has been issued, and no status poll is issued     *)
(* after the COMPLETED response.                                            *)

C1_Record ==
    (ItemDone /\ IsGenerate(params) /\ resultResponse # Undefined) =>
        /\ pc # "raised"
        /\ Len(returnData) = i
        /\ LET json == LastRecord.json
               payload == resultResponse[1]
           IN /\ DOMAIN json = DOMAIN payload \cup {"request_id", "model"}
              /\ json.request_id = job.queueResponse.request_id
              /\ json.model = params.model
              /\ \A k \in DOMAIN payload \ {"request_id", "model"} : json[k] = payload[k]
        /\ Len(ReqsOf(ItemIndex, "result")) = 1
        /\ reqs[Len(reqs)].kind = "result"

C1_NoPollAfterCompleted ==
    (IsGenerate(params) /\ SawStatus({"COMPLETED"})) =>
        /\ StatusPolls(reqs') = StatusPolls(reqs)
        /\ Len(ResultGets(reqs')) <= 1

C1_GenerateCompleted == [] C1_Record /\ [][C1_NoPollAfterCompleted]_vars

\* a generate item returned its record after three status polls, the payload
\* itself carrying a request_id
C1_Witness ==
    /\ pc = "returned"
    /\ IsGenerate(params)
    /\ resultResponse # Undefined
    /\ "request_id" \in DOMAIN resultResponse[1]
    /\ Len(ReqsOf(0, "status")) = 3

----------------------------------------------------------------------------
(* C2: in the polling loop of generate and runWorkflow, a status response   *)
(* of FAILED or CANCELLED ends the item with an error whose message carries *)
(* the request id and the status, and no status poll and no result GET is   *)
(* issued afterwards for that item.                                         *)

C2_Error ==
    SawStatus({"FAILED", "CANCELLED"}) =>
        /\ ItemDone
        /\ \E msg \in {FailedMessage(params, st, job.queueResponse.request_id) :
                           st \in {statusResponse[1].status}} :
              /\ ItemFailedWith(msg)
              /\ msg.requestId = job.queueResponse.request_id
              /\ msg.status = statusResponse[1].status
        /\ reqs[Len(reqs)].kind = "status"

C2_NoRequestAfter ==
    SawStatus({"FAILED", "CANCELLED"}) => reqs' = reqs

C2_FailedIsTerminal == [] C2_Error /\ [][C2_NoRequestAfter]_vars

\* a runWorkflow item ended on CANCELLED after an earlier poll
C2_Witness ==
    /\ SawStatus({"CANCELLED"})
    /\ IsRun(params)
    /\ ItemDone
    /\ Len(ReqsOf(0, "status")) = 2

----------------------------------------------------------------------------
(* C3: in generate and runWorkflow with wait-for-completion enabled, when   *)
(* the polling loop exits because the deadline has passed (no COMPLETED was *)
(* seen), the item ends with the timeout error, whose message includes the  *)
(* request id; in particular with a max wait of 1 second and a poll         *)
(* interval larger than that.                                               *)

ItemErrorMessage == IF pc = "raised" THEN thrown[1].message ELSE LastRecord.json.error

TimeoutTemplates ==
    {"Generation timed out after ${seconds} seconds. Request ID: ${requestId}.",
     "Workflow timed out after ${seconds} seconds. Request ID: ${requestId}."}

DeadlinePassed ==
    pc = "while" /\ now - job.startTime >= MaxWaitTime(params.options)

EndedWithTimeout(requestId) ==
    /\ ItemDone
    /\ pc = "raised" \/ (Len(returnData) = i /\ DOMAIN LastRecord.json = {"error"})
    /\ ItemErrorMessage.tpl \in TimeoutTemplates
    /\ ItemErrorMessage.requestId = requestId

C3_LoopExitTimesOut ==
    [][DeadlinePassed =>
          /\ EndedWithTimeout(job.queueResponse.request_id)'
          /\ reqs' = reqs]_vars

\* max wait 1 second, poll interval 2 seconds: one status poll, one sleep,
\* then the timeout error
C3_Witness ==
    /\ ItemDone
    /\ job # NoJob
    /\ params.options.maxWaitTime = Some(1)
    /\ params.options.pollInterval = Some(2)
    /\ Len(ReqsOf(0, "status")) = 1
    /\ EndedWithTimeout(job.requestId)

----------------------------------------------------------------------------
(* C4: in the polling loop, a status other than IN_QUEUE, IN_PROGRESS,      *)
(* COMPLETED, FAILED and CANCELLED ends the item at once with the           *)
(* 'unexpected status' error: no sleep and no request follows it.           *)

UnexpectedTemplates ==
    {"Unexpected queue status ${status}. Request ID: ${requestId}.",
     "Unexpected workflow status ${status}. Request ID: ${requestId}."}

SawUnknownStatus == SawStatus(Statuses \ KnownStatuses)

C4_Error ==
    SawUnknownStatus =>
        /\ ItemDone
        /\ pc = "raised" \/ (Len(returnData) = i /\ DOMAIN LastRecord.json = {"error"})
        /\ ItemErrorMessage.tpl \in UnexpectedTemplates
        /\ ItemErrorMessage.status = statusResponse[1].status
        /\ reqs[Len(reqs)].kind = "status"

C4_NothingAfter == SawUnknownStatus => (reqs' = reqs /\ now' = now)

C4_UnexpectedIsTerminal == [] C4_Error /\ [][C4_NothingAfter]_vars

\* a generate item ended on the status PAUSED, received by its second poll
C4_Witness ==
    /\ SawUnknownStatus
    /\ IsGenerate(params)
    /\ ItemDone
    /\ Len(ReqsOf(0, "status")) = 2

----------------------------------------------------------------------------
(* C5: with wait-for-completion disabled, generate issues the submit POST   *)
(* and no other request, and returns the record with status QUEUED, the     *)
(* request id, the input payload and status_url, response_url, cancel_url.  *)

CurrentItem == IF ItemDone THEN ItemIndex ELSE i

C5_ImmediateReturn ==
    (IsGenerate(params) /\ ~Waits(params)) =>
        /\ \A k \in 1..Len(reqs) :
              reqs[k].item = CurrentItem =>
                  reqs[k].kind = "submit" /\ reqs[k].method = "POST"
        /\ Len(ReqsOf(CurrentItem, "submit")) = (IF pc = "submit" THEN 0 ELSE 1)
        /\ job # NoJob =>
              /\ pc \in {"loop", "returned"}
              /\ Len(returnData) = i
              /\ LastRecord.json =
                    [request_id |-> job.queueResponse.request_id,
                     model |-> params.model,
                     status |-> "QUEUED",
                     input |-> params.input,
                     status_url |-> job.statusUrl,
                     response_url |-> job.responseUrl,
                     cancel_url |-> job.cancelUrl]

\* a generate item with waitForCompletion false returned its record
C5_Witness ==
    /\ pc = "returned"
    /\ IsGenerate(params)
    /\ params.options.waitForCompletion = Some(FALSE)
    /\ job # NoJob
    /\ Len(reqs) = 1

----------------------------------------------------------------------------
(* C6: after a generate submit, each of the status, response and cancel     *)
(* URLs is, independently of the other two, the URL of the submit response  *)
(* when it carries one (a non-empty string), and otherwise                  *)
(* https://queue.fal.run/{baseModelId}/requests/{request_id}[/status|/cancel] *)
(* with the two-segment baseModelId; the submit POST goes to                *)
(* https://queue.fal.run/{submitPath}.                                      *)

Present(u) == u # Undefined /\ u[1] # <<>>

C6_Urls ==
    (IsGenerate(params) /\ job # NoJob) =>
        LET qr == job.queueResponse
            base == resolveQueuePaths(params.model).baseModelId
            submitPath == resolveQueuePaths(params.model).submitPath
            tpl == QueueHost \o base \o <<Slash, "requests", Slash, qr.request_id>>
        IN /\ Len(FilterBoolean(SplitSlash(base))) <= 2
           /\ job.statusUrl = IF Present(qr.status_url) THEN qr.status_url[1]
                              ELSE tpl \o <<Slash, "status">>
           /\ job.responseUrl = IF Present(qr.response_url) THEN qr.response_url[1]
                                ELSE tpl
           /\ job.cancelUrl = IF Present(qr.cancel_url) THEN qr.cancel_url[1]
                              ELSE tpl \o <<Slash, "cancel">>
           /\ ReqsOf(CurrentItem, "submit") =
                 << [item |-> CurrentItem, kind |-> "submit", method |-> "POST",
                     url |-> QueueHost \o submitPath] >>
           /\ \A k \in 1..Len(reqs) :
                 (reqs[k].item = CurrentItem /\ reqs[k].kind = "status") =>
                     reqs[k].url = job.statusUrl

\* model fal-ai/flux/dev was polled at the status URL the submit response
\* gave, while the response URL was absent and the cancel URL empty
C6_Witness ==
    /\ IsGenerate(params)
    /\ params.model = FluxDev
    /\ job # NoJob
    /\ job.queueResponse.status_url = Some(GivenStatusUrl)
    /\ job.queueResponse.response_url = Undefined
    /\ job.queueResponse.cancel_url = Some(<<>>)
    /\ Len(ReqsOf(0, "status")) = 1

----------------------------------------------------------------------------
(* C7: generate with model id "fal-ai/flux/dev", wait-for-completion        *)
(* disabled and a submit response without URLs returns a record with status *)
(* "QUEUED", model "fal-ai/flux/dev" and a derived status_url.              *)

C7_Case ==
    /\ ItemDone
    /\ pc # "raised"
    /\ IsGenerate(params)
    /\ params.model = FluxDev
    /\ ~Waits(params)
    /\ job # NoJob
    /\ job.queueResponse.status_url = Undefined
    /\ job.queueResponse.response_url = Undefined
    /\ job.queueResponse.cancel_url = Undefined

\* the claim as stated: the status_url ends in
\* /flux/dev/requests/<request_id>/status
C7_StatusUrlUnderSubpath ==
    C7_Case =>
        /\ LastRecord.json.status = "QUEUED"
        /\ LastRecord.json.model = FluxDev
        /\ IsSuffix(<<Slash, "flux", Slash, "dev", Slash, "requests", Slash,
                      job.queueResponse.request_id, Slash, "status">>,
                    LastRecord.json.status_url)

\* amended: the status_url is
\* https://queue.fal.run/fal-ai/flux/requests/<request_id>/status, and so ends
\* in /flux/requests/<request_id>/status; only the submit POST went to
\* https://queue.fal.run/fal-ai/flux/dev
C7_StatusUrlUnderBase ==
    C7_Case =>
        /\ LastRecord.json.status = "QUEUED"
        /\ LastRecord.json.model = FluxDev
        /\ LastRecord.json.status_url =
              QueueHost \o <<"fal-ai", Slash, "flux", Slash, "requests", Slash,
                             job.queueResponse.request_id, Slash, "status">>
        /\ IsSuffix(<<Slash, "flux", Slash, "requests", Slash,
                      job.queueResponse.request_id, Slash, "status">>,
                    LastRecord.json.status_url)
        /\ reqs[Len(reqs)].url = QueueHost \o FluxDev

C7_Witness == C7_Case /\ pc = "returned" /\ job.queueResponse.request_id = "r2"

----------------------------------------------------------------------------
(* C8: with continue-on-fail enabled, whatever items of the batch fail and  *)
(* however (HTTP error, terminal job status, timeout, validation, unknown   *)
(* selector), execute never raises, handles the items in order, and returns *)
(* one record per input item in input order: {json: {error: <message>}}     *)
(* paired with item k for a failed item k, the normal result for the        *)
(* others.                                                                  *)

IsErrorRecord(rec) == DOMAIN rec.json = {"error"} /\ "tpl" \in DOMAIN rec.json.error

C8_State ==
    cof =>
        /\ pc # "raised"
        /\ thrown = Undefined
        /\ Len(returnData) = i
        /\ i <= nItems
        /\ \A k \in 1..Len(returnData) : returnData[k].pairedItem = [item |-> k - 1]
        /\ pc = "returned" => Len(returnData) = nItems

C8_Step ==
    cof =>
        /\ Len(returnData') \in {Len(returnData), Len(returnData) + 1}
        /\ SubSeq(returnData', 1, Len(returnData)) = returnData
        /\ Len(returnData') = Len(returnData) + 1 =>
              LET rec == returnData'[Len(returnData')] IN
              /\ rec.pairedItem = [item |-> i]
              /\ i' = i + 1
              /\ IF result' # Undefined
                 THEN rec.json = result'[1]
                 ELSE IsErrorRecord(rec)

C8_ContinueOnFail == [] C8_State /\ [][C8_Step]_vars

\* a batch of two returned: the first item failed on an upstream HTTP error,
\* the second has its normal record
C8_Witness ==
    /\ pc = "returned"
    /\ cof
    /\ nItems = 2
    /\ Len(returnData) = 2
    /\ IsErrorRecord(returnData[1])
    /\ returnData[1].json.error.tpl = "text"
    /\ ~IsErrorRecord(returnData[2])
    /\ Len(reqs) >= 2

----------------------------------------------------------------------------
(* C9: with continue-on-fail disabled, the first item that fails makes      *)
(* execute raise: nothing is returned, and no HTTP request is issued for    *)
(* any later item.                                                          *)

C9_State ==
    ~cof =>
        /\ pc = "raised" <=> thrown # Undefined
        /\ pc = "raised" =>
              /\ Len(returnData) = i
              /\ \A k \in 1..Len(reqs) : reqs[k].item <= i

C9_Step ==
    ~cof =>
        /\ pc # "raised"
        /\ (pc' \in {"loop", "raised"} /\ result' = Undefined) =>
              /\ pc' = "raised"
              /\ thrown' # Undefined
              /\ returnData' = returnData
              /\ i' = i

C9_AbortOnFail == [] C9_State /\ [][C9_Step]_vars

\* in a batch of two the first item failed while it was being polled, and
\* execute raised
C9_Witness ==
    /\ pc = "raised"
    /\ ~cof
    /\ nItems = 2
    /\ i = 0
    /\ Len(reqs) >= 2

----------------------------------------------------------------------------
(* C10: for every model id with at most two non-empty slash-separated       *)
(* segments, leading, trailing and doubled slashes included,                *)
(* resolveQueuePaths returns baseModelId equal to submitPath, both the      *)
(* non-empty segments joined by single slashes.                             *)

\* the number of non-empty segments: the places where a piece of text starts
SegmentCount(s) ==
    Cardinality({k \in 1..Len(s) : s[k] # Slash /\ (k = 1 \/ s[k - 1] = Slash)})

\* s with only those slashes kept that separate two pieces of text
KeepsAtom(s, k) ==
    \/ s[k] # Slash
    \/ /\ k > 1
       /\ s[k - 1] # Slash
       /\ \E j \in (k + 1)..Len(s) : s[j] # Slash

RECURSIVE KeptFrom(_, _)
KeptFrom(s, k) ==
    IF k > Len(s) THEN <<>>
    ELSE (IF KeepsAtom(s, k) THEN <<s[k]>> ELSE <<>>) \o KeptFrom(s, k + 1)

SingleSlashed(s) == KeptFrom(s, 1)

C10_ShortIdsResolveToThemselves ==
    (paths # Undefined /\ SegmentCount(modelId) <= 2) =>
        /\ paths[1].baseModelId = paths[1].submitPath
        /\ paths[1].submitPath = SingleSlashed(modelId)

\* the id "/a//b" was resolved
C10_Witness ==
    /\ paths # Undefined
    /\ modelId = <<Slash, "a", Slash, Slash, "b">>
    /\ paths[1].submitPath = <<"a", Slash, "b">>

----------------------------------------------------------------------------
(* C11: for every model id with more than two non-empty segments,           *)
(* resolveQueuePaths returns a baseModelId made of exactly the first two    *)
(* segments, and a submitPath that starts with baseModelId followed by a    *)
(* slash and is the original non-empty segments, in order, joined by single *)
(* slashes.                                                                 *)

IsPrefix(t, s) == Len(t) <= Len(s) /\ SubSeq(s, 1, Len(t)) = t
SlashCount(s) == Cardinality({k \in 1..Len(s) : s[k] = Slash})

C11_LongIdsSplitAfterTwo ==
    (paths # Undefined /\ SegmentCount(modelId) > 2) =>
        LET base == paths[1].baseModelId
            submitPath == paths[1].submitPath
        IN /\ submitPath = SingleSlashed(modelId)
           /\ IsPrefix(base \o <<Slash>>, submitPath)
           /\ SegmentCount(base) = 2
           /\ SlashCount(base) = 1
           /\ SegmentCount(submitPath) = SegmentCount(modelId)

\* the id "a//b/a/" was resolved to base a/b and submit path a/b/a
C11_Witness ==
    /\ paths # Undefined
    /\ modelId = <<"a", Slash, Slash, "b", Slash, "a", Slash>>
    /\ paths[1].baseModelId = <<"a", Slash, "b">>
    /\ paths[1].submitPath = <<"a", Slash, "b", Slash, "a">>

----------------------------------------------------------------------------
(* C12: getModelSchema(m) issues a network fetch exactly when the cache has *)
(* no entry for m or the entry is at least 10 minutes old.  A call that     *)
(* finds a younger entry returns the stored descriptor object itself and    *)
(* issues no request; any other call issues exactly one GET, and when that  *)
(* is answered with a model, the parsed first model is stored as a new      *)
(* object with the time of the store as its timestamp.                      *)

TenMinutes == 10 * 60 * 1000

\* caller c enters getModelSchema in this step
Called(c) == calls'[c].n = calls[c].n + 1
\* the request of caller c is answered in this step
Answered(c) == calls[c].pc = "fetching" /\ calls'[c].pc = "returned"
FreshEntry(m) ==
    modelSchemaCache[m] # <<>> /\ now - modelSchemaCache[m][1].timestamp < TenMinutes
HasModels(outcome) ==
    outcome # <<>> /\ outcome[1].models # <<>> /\ outcome[1].models[1] # <<>>

C12_Call ==
    \A c \in Callers : Called(c) =>
        LET m == calls'[c].modelId IN
        /\ modelSchemaCache' = modelSchemaCache
        /\ IF FreshEntry(m)
           THEN /\ reqs' = reqs
                /\ calls'[c].pc = "returned"
                /\ calls'[c].ret = <<modelSchemaCache[m][1].data>>
           ELSE /\ reqs' = Append(reqs, [item |-> c, kind |-> "models", method |-> "GET",
                                         url |-> <<"https://api.fal.ai/v1/", "models",
                                                   "?endpoint_id=">> \o m])
                /\ calls'[c].pc = "fetching"

C12_Store ==
    \A c \in Callers : Answered(c) =>
        /\ reqs' = reqs
        /\ HasModels(calls'[c].response) =>
              LET m == calls[c].modelId
                  d == calls'[c].ret[1]
              IN /\ modelSchemaCache'[m] = <<[data |-> d, timestamp |-> now']>>
                 /\ d.info = parseOpenAPISchema(calls'[c].response[1].models[1][1])
                 /\ d.info.model = m
                 /\ \A k \in SchemaIds :
                       modelSchemaCache[k] # <<>> => modelSchemaCache[k][1].data.oid # d.oid
                 /\ \A k \in SchemaIds \ {m} : modelSchemaCache'[k] = modelSchemaCache[k]

C12_FetchOnMissOrExpiry == [][C12_Call /\ C12_Store]_vars

\* an entry stored at time 0 was returned by a later call, and a call made
\* when it was exactly 10 minutes old fetched again and stored the new entry
C12_Witness ==
    \E c \in Callers :
        /\ calls[c].pc = "returned"
        /\ calls[c].cached # <<>>
        /\ calls[c].cached[1].timestamp = 0
        /\ HasModels(calls[c].response)
        /\ modelSchemaCache[calls[c].modelId] =
              <<[data |-> calls[c].ret[1], timestamp |-> TenMinutes]>>
        /\ Len(reqs) = 2
        /\ calls[1].n + calls[2].n = 3

----------------------------------------------------------------------------
(* C13: when the model lookup response has no models, or the request fails, *)
(* getModelSchema returns null and leaves the cache exactly as it was, and  *)
(* a later call for that model id, made while the entry is still the one    *)
(* the failed call saw, fetches again.                                      *)

ReturnedNull(c) == calls[c].pc = "returned" /\ calls[c].ret = <<Null>>

C13_Step ==
    \A c \in Callers :
        /\ (Answered(c) /\ ~HasModels(calls'[c].response)) =>
              /\ calls'[c].ret = <<Null>>
              /\ modelSchemaCache' = modelSchemaCache
              /\ thrown' = <<>>
        /\ (Called(c) /\ \E c2 \in Callers :
                            /\ ReturnedNull(c2)
                            /\ calls[c2].modelId = calls'[c].modelId
                            /\ modelSchemaCache[calls[c2].modelId] = calls[c2].cached) =>
              /\ Len(reqs') = Len(reqs) + 1
              /\ calls'[c].pc = "fetching"

C13_NullLeavesCache == [][C13_Step]_vars

\* a call that found an expired entry got a response with an empty model
\* list and returned null, the entry is still there, and the next call for
\* the same model id is fetching
C13_Witness ==
    \E c, c2 \in Callers :
        /\ ReturnedNull(c)
        /\ calls[c].response = <<[models |-> <<<<>>>>]>>
        /\ calls[c].cached # <<>>
        /\ modelSchemaCache[calls[c].modelId] = calls[c].cached
        /\ calls[c2].pc = "fetching"
        /\ calls[c2].modelId = calls[c].modelId
        /\ Len(reqs) = 3
        /\ reqs[3].item = c2

----------------------------------------------------------------------------
(* C14: when a request of execute fails with an HTTP status code s and a    *)
(* response body object that carries a recognized message field (message,   *)
(* detail, error, title) with a text, the error execute raises is an API    *)
(* error whose message carries the text of such a field and whose payload   *)
(* has statusCode s.                                                        *)

RecognizedFields == <<"message", "detail", "error", "title">>
\* the field value v is a string with some text
HasText(v) == v # <<>> /\ v[1] = "str" /\ v[2] # ""

\* execute raised for an error that carries transport details
RaisedHttp == pc = "raised" /\ caught # <<>> /\ caught[1].response # <<>>
CaughtStatus == caught[1].response[1].status
CaughtData == caught[1].response[1].data
RaisedMessage == thrown[1].message.message

C14_NormalizedHttpError ==
    (/\ RaisedHttp
     /\ CaughtStatus # <<>>
     /\ CaughtData.t = "object"
     /\ \E k \in 1..4 : HasText(CaughtData[RecognizedFields[k]])) =>
        /\ thrown[1].name = "NodeApiError"
        /\ thrown[1].message.tpl = "fal.ai request failed (${status}): ${message}"
        /\ thrown[1].message.status = CaughtStatus
        /\ \E k \in 1..4 :
              /\ HasText(CaughtData[RecognizedFields[k]])
              /\ RaisedMessage = [tpl |-> "text", s |-> CaughtData[RecognizedFields[k]][2]]
        /\ thrown[1].payload # <<>>
        /\ thrown[1].payload[1].statusCode = CaughtStatus
        /\ thrown[1].payload[1].message = RaisedMessage
        /\ thrown[1].itemIndex = i

\* a request was rejected with status 422 and the body {"detail": "bad input"}
C14_Witness ==
    /\ RaisedHttp
    /\ CaughtStatus = <<422>>
    /\ CaughtData = [t |-> "object", message |-> <<>>, detail |-> <<"str", "bad input">>,
                     error |-> <<>>, title |-> <<>>]
    /\ RaisedMessage = [tpl |-> "text", s |-> "bad input"]
    /\ thrown[1].payload[1].statusCode = <<422>>
    /\ Len(reqs) = 2

----------------------------------------------------------------------------
(* C15: for a failure with transport details, the message is the first of   *)
(* the body's message, detail, error, title fields that is a string; the    *)
(* body itself when it is a string; and the original error's message when   *)
(* the body is empty.                                                       *)

\* the body as a message
RawBody(data) ==
    IF data.t = "string" THEN [tpl |-> "text", s |-> data.s]
    ELSE [tpl |-> "${body}", body |-> data]

BodyIsEmpty(data) == data.t \in {"undefined", "null"} \/ (data.t = "string" /\ data.s = "")

\* the claim as stated, a string field being one with some text and the
\* original message standing for "Request failed" when the error has none:
\* the first string field, else the raw body, else (empty body) the original
\* message
C15_FirstStringElseRawBody ==
    RaisedHttp =>
        IF BodyIsEmpty(CaughtData)
        THEN \/ RaisedMessage = caught[1].message
             \/ /\ caught[1].message = [tpl |-> "text", s |-> ""]
                /\ RaisedMessage = [tpl |-> "text", s |-> "Request failed"]
        ELSE IF CaughtData.t = "object" /\ \E k \in 1..4 : HasText(CaughtData[RecognizedFields[k]])
        THEN \E k \in 1..4 :
                /\ HasText(CaughtData[RecognizedFields[k]])
                /\ \A j \in 1..(k - 1) : ~HasText(CaughtData[RecognizedFields[j]])
                /\ RaisedMessage = [tpl |-> "text", s |-> CaughtData[RecognizedFields[k]][2]]
        ELSE RaisedMessage = RawBody(CaughtData)

\* amended: the first field that is a non-empty string; else the body when
\* it is a non-empty string; else the original error's message, or
\* "Request failed" when that is empty
C15_FirstTextElseOriginal ==
    RaisedHttp =>
        IF CaughtData.t = "string" /\ CaughtData.s # ""
        THEN RaisedMessage = [tpl |-> "text", s |-> CaughtData.s]
        ELSE IF CaughtData.t = "object" /\ \E k \in 1..4 : HasText(CaughtData[RecognizedFields[k]])
        THEN \E k \in 1..4 :
                /\ HasText(CaughtData[RecognizedFields[k]])
                /\ \A j \in 1..(k - 1) : ~HasText(CaughtData[RecognizedFields[j]])
                /\ RaisedMessage = [tpl |-> "text", s |-> CaughtData[RecognizedFields[k]][2]]
        ELSE IF caught[1].message # [tpl |-> "text", s |-> ""]
        THEN RaisedMessage = caught[1].message
        ELSE RaisedMessage = [tpl |-> "text", s |-> "Request failed"]

\* the body {"message": 7, "detail": "bad input", "error": "from error"}
\* gave the message "bad input"
C15_Witness ==
    /\ RaisedHttp
    /\ CaughtData = [t |-> "object", message |-> <<"num", 7>>,
                     detail |-> <<"str", "bad input">>,
                     error |-> <<"str", "from error">>, title |-> <<>>]
    /\ RaisedMessage = [tpl |-> "text", s |-> "bad input"]

----------------------------------------------------------------------------
(* C16 *)

\* the one parameter of the item, when its list holds exactly one
OneParameter == params # NoParams /\ Len(params.parameters) = 1
SniffedName == params.parameters[1].parameter
SniffedValue == params.parameters[1].value[1]
\* the parameter reaches the sniffing: it has a name and a non-empty value
ReachesSniffing ==
    /\ OneParameter
    /\ SniffedName # ""
    /\ params.parameters[1].value # Undefined
    /\ SniffedValue # <<>>
\* the item got past the building of its input
InputBuilt ==
    /\ params # NoParams
    /\ params.operation = "generate" \/ ~InvalidWorkflowId(params.workflowId)
Brackets(s, open, close) == s # <<>> /\ s[1] = open /\ s[Len(s)] = close

\* C16: building the input of generate or runWorkflow never raises, whatever
\* the parameter value is. A value with a name that is neither undefined nor
\* empty is stored under its name: as the parsed JSON value when, trimmed, it
\* is wrapped in braces or brackets, is true or false or reads as a number,
\* and JSON.parse accepts it; otherwise as the original string, untrimmed.
\* "42" becomes the number 42, "true" the boolean, "[1,2]" the array, and
\* "hello", "{invalid" and "{invalid}" stay strings. A parameter without a
\* name, or whose value is undefined or empty, is left out of the input.
C16_SniffNeverRaises ==
    InputBuilt =>
        /\ thrown = Undefined /\ caught = Undefined
        /\ OneParameter =>
              IF ReachesSniffing
              THEN /\ DOMAIN params.input = {SniffedName}
                   /\ LET stored == params.input[SniffedName]
                          trimmed == Trim(SniffedValue)
                      IN
                      /\ stored.t = "string" => stored = JsonString(SniffedValue)
                      /\ stored.t # "null"
                      /\ stored.t = "object" => Brackets(trimmed, "{", "}")
                      /\ stored.t = "array" => Brackets(trimmed, "[", "]")
                      /\ stored.t = "bool" =>
                            trimmed \in {<<"t", "r", "u", "e">>, <<"f", "a", "l", "s", "e">>}
                      /\ stored.t = "number" => IsNumeric(trimmed)
                      /\ JsonParse(trimmed).ok /\ JsonParse(trimmed).v.t \notin {"string", "null"}
                            => stored = JsonParse(trimmed).v
                      /\ ~JsonParse(trimmed).ok => stored = JsonString(SniffedValue)
                      /\ SniffedValue = <<"4", "2">> => stored = JsonNumber(42, 0)
                      /\ SniffedValue = <<"t", "r", "u", "e">> => stored = JsonBool(TRUE)
                      /\ SniffedValue = <<"[", "1", ",", "2", "]">>
                            => stored = JsonArray(<<JsonNumber(1, 0), JsonNumber(2, 0)>>)
                      /\ SniffedValue \in {<<"h", "e", "l", "l", "o">>,
                                           <<"{", "i", "n", "v", "a", "l", "i", "d">>,
                                           <<"{", "i", "n", "v", "a", "l", "i", "d", "}">>}
                            => stored = JsonString(SniffedValue)
              ELSE DOMAIN params.input = {}

\* a value that looks like JSON and is not: it was kept and the job submitted
C16_Witness ==
    /\ InputBuilt
    /\ ReachesSniffing
    /\ SniffedValue = <<"{", "i", "n", "v", "a", "l", "i", "d", "}">>
    /\ params.input[SniffedName] = JsonString(SniffedValue)
    /\ Len(reqs) = 1
    /\ pc = "loop" /\ i = 1

----------------------------------------------------------------------------
(* C17 *)

\* the operations the dispatcher of execute names, per resource
RecognizedOperations ==
    [model |-> {"getAnalytics", "getPricing", "getUsage", "deletePayloads",
                "listRequests", "getParameters", "generate"},
     workflow |-> {"runWorkflow", "listWorkflows", "getWorkflow"}]
UnknownSelector(p) ==
    \/ p.resource \notin DOMAIN RecognizedOperations
    \/ p.resource \in DOMAIN RecognizedOperations
       /\ p.operation \notin RecognizedOperations[p.resource]
\* a workflow id that is empty or has no slash between a namespace and a name
LacksShape(id) == \A k \in 1..Len(id) : id[k] # Slash
RejectedBeforeIo(p) ==
    \/ UnknownSelector(p)
    \/ p.resource = "workflow" /\ p.operation \in {"runWorkflow", "getWorkflow"}
       /\ LacksShape(p.workflowId)
RejectionMessage(p) ==
    IF p.resource \notin DOMAIN RecognizedOperations THEN UnknownResourceMessage(p.resource)
    ELSE IF p.resource = "model" THEN UnknownOperationMessage(p.operation)
    ELSE IF p.operation \in {"runWorkflow", "getWorkflow"} THEN InvalidWorkflowMessage
    ELSE UnknownWorkflowOperationMessage(p.operation)
RequestsOf(k) == {n \in 1..Len(reqs) : reqs[n].item = k}

\* the step that reads item i: when the item is rejected, the step issues no
\* request and ends the item with its error
C17_Step ==
    (pc = "loop" /\ i < nItems /\ RejectedBeforeIo(params')) =>
        /\ reqs' = reqs
        /\ RequestsOf(i) = {}
        /\ caught' = Some(OperationError(RejectionMessage(params'), Undefined))
        /\ IF cof
           THEN /\ i' = i + 1 /\ pc' = "loop" /\ thrown' = Undefined
                /\ returnData' =
                      Append(returnData, OutputRecord([error |-> RejectionMessage(params')], i))
           ELSE /\ pc' = "raised"
                /\ thrown' # Undefined /\ thrown'[1].message = RejectionMessage(params')
                /\ thrown'[1].itemIndex = i
\* requests carry the index of the item in progress only
C17_RequestsOfItemInProgress ==
    \A n \in 1..Len(reqs) :
        \/ reqs[n].item < i
        \/ reqs[n].item = i /\ pc # "loop" /\ ~RejectedBeforeIo(params)

----------------------------------------------------------------------------
(* C18 *)

\* the value of an option, in seconds: the configured one, or the documented
\* default when the option is not configured
ConfiguredOr(option, default) == IF option = Undefined THEN default ELSE option[1]
ConfiguredPollMs == ConfiguredOr(params.options.pollInterval, 5) * 1000
ConfiguredMaxWaitMs == ConfiguredOr(params.options.maxWaitTime, 600) * 1000

C18_Step ==
    \* with no waitForCompletion option the submit goes on to the polling loop
    /\ (pc = "submit" /\ job' # NoJob /\ params.options.waitForCompletion = Undefined)
          => pc' = "while"
    \* the sleep between two polls lasts the poll interval
    /\ (pc = "sleep" /\ pc' = "while") => now' - now = ConfiguredPollMs
    \* the loop polls while the max wait has not elapsed, and ends when it has
    /\ (pc = "while" /\ Len(reqs') > Len(reqs)) => now - job.startTime < ConfiguredMaxWaitMs
    /\ (pc = "while" /\ reqs' = reqs) =>
          /\ now - job.startTime >= ConfiguredMaxWaitMs
          /\ caught' = Some(OperationError(
                 TimeoutMessage(params, ConfiguredMaxWaitMs, job.requestId), Undefined))

\* C18: generate and runWorkflow wait for completion by default; the polling
\* loop sleeps the configured poll interval between polls, 5 seconds when none
\* is configured, and polls until the configured max wait has elapsed, 600
\* seconds when none is configured, for every configured value.
C18_OptionsHonoured == [][C18_Step]_vars

----------------------------------------------------------------------------
(* C19 *)

StatusRequestsOf(k) == {n \in RequestsOf(k) : reqs[n].kind = "status"}
\* items 0 .. k-1 have each produced their record, in order
ProducedUpTo(k) ==
    /\ Len(returnData) = k
    /\ \A j \in 1..k : returnData[j].pairedItem.item = j - 1

\* in the request log no request of an item follows one of a later item, and
\* the status polls of one item all go to one job
C19_LogInItemOrder ==
    /\ \A m, n \in 1..Len(reqs) : m < n => reqs[m].item <= reqs[n].item
    /\ \A k \in 0..nItems : \A m, n \in StatusRequestsOf(k) : reqs[m].url = reqs[n].url
\* a step that issues a request issues one, for the item in progress, after
\* every earlier item has produced its record and no error has been raised;
\* a sleep issues none and stays with its item
C19_Step ==
    /\ reqs' # reqs =>
          /\ Len(reqs') = Len(reqs) + 1
          /\ reqs'[Len(reqs')].item = i
          /\ i < nItems
          /\ ProducedUpTo(i)
          /\ thrown = Undefined
    /\ pc = "sleep" => reqs' = reqs /\ i' = i /\ pc' = "while" /\ returnData' = returnData

\* C19: the items of one execute invocation are processed one at a time in
\* index order. Every request (submit, status poll, result fetch, single GET)
\* is issued for the item in progress, when each earlier item has produced its
\* output record or error record and no error has ended the invocation; while
\* an item sleeps between polls nothing else is issued; the status polls of
\* an item all go to the one job of that item.
C19_StrictlySequential == []C19_LogInItemOrder /\ [][C19_Step]_vars

\* the second item sleeps between polls after the first one was polled twice
C19_Witness ==
    /\ i = 1 /\ pc = "sleep"
    /\ Cardinality(StatusRequestsOf(0)) >= 2
    /\ StatusRequestsOf(1) # {}
    /\ ProducedUpTo(1)

----------------------------------------------------------------------------
(* C20 *)

\* time since the polling loop of the item in progress started
Elapsed == now - job.startTime
\* the max wait the loop runs with, in milliseconds
LoopMaxWaitMs == NumOrElse(params.options.maxWaitTime, DefaultMaxWaitTime) * MsPerSecond
IssuesStatusPoll ==
    Len(reqs') = Len(reqs) + 1 /\ reqs'[Len(reqs')].kind = "status"

C20_Step ==
    \* a status poll is issued from the loop condition, with time to spare
    /\ IssuesStatusPoll => pc = "while" /\ Elapsed < LoopMaxWaitMs
    \* at the loop condition with no time left: no poll, no result, the item
    \* ends with the timeout error
    /\ (pc = "while" /\ Elapsed >= LoopMaxWaitMs) =>
          /\ reqs' = reqs
          /\ result = Undefined /\ result' = Undefined
          /\ caught' = Some(OperationError(
                 TimeoutMessage(params, LoopMaxWaitMs, job.requestId), Undefined))
          /\ pc' = "raised" \/ (pc' = "loop" /\ i' = i + 1)

\* C20: in the polling loop the deadline is checked before every status poll.
\* A status poll is issued only from the loop condition at a moment when the
\* time elapsed since the loop started is strictly below the max wait; when
\* the loop condition is reached with the elapsed time at or above the max
\* wait, the loop exits with no result and no further poll, and the item ends
\* with the timeout error.
C20_DeadlineBeforeEveryPoll == [][C20_Step]_vars

\* the loop was left at the deadline itself, after a poll and a sleep
C20_Witness ==
    /\ pc = "raised"
    /\ params # NoParams /\ job # NoJob
    /\ Elapsed = LoopMaxWaitMs
    /\ \E n \in 1..Len(reqs) : reqs[n].kind = "status"
    /\ caught = Some(OperationError(
           TimeoutMessage(params, LoopMaxWaitMs, job.requestId), Undefined))

----------------------------------------------------------------------------
(* C21 *)

IssuesResultGet ==
    Len(reqs') = Len(reqs) + 1 /\ reqs'[Len(reqs')].kind = "result"
\* the response URL fixed at submit time: the submit response's, or the one
\* derived from the base and the request id
SubmitTimeResponseUrl ==
    IF Present(job.queueResponse.response_url) THEN job.queueResponse.response_url[1]
    ELSE IF IsGenerate(params)
    THEN QueueHost \o resolveQueuePaths(params.model).baseModelId
             \o <<Slash, "requests", Slash, job.queueResponse.request_id>>
    ELSE QueueHost \o <<"workflows", Slash>> \o params.workflowId
             \o <<Slash, "requests", Slash, job.queueResponse.request_id>>

C21_Step ==
    IssuesResultGet =>
        /\ SawStatus({"COMPLETED"})
        /\ reqs'[Len(reqs')].method = "GET"
        /\ reqs'[Len(reqs')].url =
              IF Present(statusResponse[1].response_url)
              THEN statusResponse[1].response_url[1]
              ELSE SubmitTimeResponseUrl

\* C21: the result GET follows a status poll that answered COMPLETED and goes
\* to the response URL of that status payload when it carries one, otherwise
\* to the response URL fixed at submit time: the response_url of the submit
\* response, or the derived one when the submit response carries none.
C21_ResultUrl == [][C21_Step]_vars

\* the result was fetched from the URL of the status payload although the
\* submit response had named another one
C21_Witness ==
    /\ resultResponse # Undefined
    /\ job.queueResponse.response_url = Some(GivenResponseUrl)
    /\ statusResponse = Some([status |-> "COMPLETED", response_url |-> Some(LateResponseUrl)])
    /\ reqs[Len(reqs)].kind = "result"
    /\ reqs[Len(reqs)].url = LateResponseUrl

----------------------------------------------------------------------------
(* C22 *)

JobKinds == {"submit", "status", "result"}
JobReqsOf(k) == SelectSeq(reqs, LAMBDA r : r.item = k /\ r.kind \in JobKinds)
\* submit, then status polls, then at most one result fetch right after a poll
ProtocolOrder(log) ==
    \A n \in 1..Len(log) :
        /\ log[n].kind = "submit" <=> n = 1
        /\ log[n].kind = "result" => n = Len(log) /\ log[n - 1].kind = "status"
        /\ log[n].method = (IF n = 1 THEN "POST" ELSE "GET")
\* the item at hand got as far as its submit
PastSubmit ==
    /\ params # NoParams
    /\ IsGenerate(params) \/ IsRun(params)
    /\ \/ pc \in {"while", "sleep", "fetch"}
       \/ ItemDone /\ ~RejectedBeforeIo(params)
IssuesJobRequest ==
    Len(reqs') = Len(reqs) + 1 /\ reqs'[Len(reqs')].kind \in JobKinds
\* the request of this step came back without a response
RequestFailed ==
    /\ IssuesJobRequest
    /\ CASE reqs'[Len(reqs')].kind = "submit" -> job' = NoJob
         [] reqs'[Len(reqs')].kind = "status" -> statusResponse' = Undefined
         [] OTHER -> resultResponse' = Undefined
EndsItemWithError(k) ==
    /\ caught' # Undefined /\ caught'[1] \in HttpErrors
    /\ IF cof
       THEN /\ pc' = "loop" /\ i' = k + 1
            /\ returnData' = Append(returnData, OutputRecord([error |-> caught'[1].message], k))
       ELSE pc' = "raised" /\ thrown' # Undefined /\ returnData' = returnData

C22_Order ==
    /\ \A k \in 0..MaxItems : ProtocolOrder(JobReqsOf(k))
    /\ \A n \in 1..Len(reqs) :
          reqs[n].item < i \/ (reqs[n].item = i /\ pc \notin {"loop", "returned"})
    /\ PastSubmit => Len(ReqsOf(CurrentItem, "submit")) = 1
C22_Step ==
    /\ i' >= i
    /\ pc = "raised" => reqs' = reqs
    /\ IssuesJobRequest =>
          /\ reqs'[Len(reqs')].item = i
          /\ IsGenerate(params) \/ IsRun(params)
          /\ reqs'[Len(reqs')].kind # "submit" =>
                /\ job # NoJob
                /\ job.requestId = job.queueResponse.request_id
          /\ reqs'[Len(reqs')].kind = "result" => SawStatus({"COMPLETED"})
    /\ RequestFailed => EndsItemWithError(i)

\* C22: the job requests of an item are one submit POST, then status GETs,
\* then at most one result GET that follows a status poll; an item that got to
\* its submit has exactly one submit request. A status poll or a result fetch
\* is issued only when the submit has returned a response, the result fetch
\* only when the latest status is COMPLETED. A submit, status poll or result
\* fetch that comes back without a response ends the item with the transport
\* error, and an item that has ended gets no further request.
C22_ProtocolOrder == []C22_Order /\ [][C22_Step]_vars

\* a second item whose result fetch failed after two status polls, the first
\* item having completed
C22_Witness ==
    /\ i = 2 /\ pc = "loop" /\ cof
    /\ Len(ResultGets(JobReqsOf(0))) = 1
    /\ ~IsErrorRecord(returnData[1])
    /\ Len(StatusPolls(JobReqsOf(1))) = 2
    /\ Len(ResultGets(JobReqsOf(1))) = 1
    /\ resultResponse = Undefined
    /\ IsErrorRecord(returnData[2])

----------------------------------------------------------------------------
(* C23 *)

FailedTemplates ==
    {"Generation did not complete successfully (status: ${status}). Request ID: ${requestId}.",
     "Workflow execution failed (status: ${status}). Request ID: ${requestId}."}
\* the outcomes the finished item has reached
Outcomes ==
    {o \in {"completed", "failed", "unexpected", "transport", "timeout"} :
        CASE o = "completed" ->
                /\ caught = Undefined /\ thrown = Undefined
                /\ resultResponse # Undefined
                /\ returnData = <<OutputRecord(result[1], 0)>>
          [] o = "failed" ->
                caught # Undefined /\ caught[1].message.tpl \in FailedTemplates
          [] o = "unexpected" ->
                caught # Undefined /\ caught[1].message.tpl \in UnexpectedTemplates
          [] o = "transport" ->
                caught # Undefined /\ caught[1] \in HttpErrors
          [] OTHER ->
                caught # Undefined /\ caught[1].message.tpl \in TimeoutTemplates}
WaitItemSubmits == pc = "submit" /\ Waits(params)
WaitItemEnded == ItemDone /\ Cardinality(Outcomes) = 1

\* C23: when every request returns and every sleep ends, having advanced the
\* clock by the poll interval, an item of generate or runWorkflow that waits
\* for completion comes to an end, whatever the status responses are, and
\* has then reached exactly one of the outcomes completed, FAILED/CANCELLED
\* error, unexpected-status error, transport error and timeout error.
C23_ItemEnds == WaitItemSubmits ~> WaitItemEnded

\* an item that ended with the timeout error after three status polls that
\* all found the job pending
C23_Witness ==
    /\ ItemDone /\ Waits(params)
    /\ Outcomes = {"timeout"}
    /\ Len(ReqsOf(0, "status")) = 3

----------------------------------------------------------------------------
(* C24 *)

\* the poll interval the loop runs with, in milliseconds
LoopPollMs == NumOrElse(params.options.pollInterval, DefaultPollInterval) * MsPerSecond
Ceil(a, b) == (a + b - 1) \div b
PollsIssued == Len(ReqsOf(0, "status"))
TimedOut == ItemDone /\ caught # Undefined /\ caught[1].message.tpl \in TimeoutTemplates

\* while the job is pending, and when the loop has timed out
C24_Count ==
    /\ pc = "sleep" =>
          /\ SawStatus({"IN_QUEUE", "IN_PROGRESS"})
          /\ PollsIssued <= Ceil(LoopMaxWaitMs, LoopPollMs)
          /\ Elapsed = (PollsIssued - 1) * LoopPollMs
    /\ TimedOut =>
          /\ PollsIssued = Ceil(LoopMaxWaitMs, LoopPollMs)
          /\ PollsIssued >= 1
          /\ Elapsed = PollsIssued * LoopPollMs
          /\ Elapsed >= LoopMaxWaitMs
          /\ Elapsed < LoopMaxWaitMs + LoopPollMs
\* every poll that finds the job pending is followed by a sleep of the whole
\* poll interval, also when the deadline falls within it
C24_Step ==
    /\ (IssuesStatusPoll /\ statusResponse'[1].status \in {"IN_QUEUE", "IN_PROGRESS"})
          => pc' = "sleep" /\ now' = now
    /\ pc = "sleep" => now' - now = LoopPollMs /\ pc' = "while"

\* C24: with requests that take no time and status responses that are all
\* IN_QUEUE or IN_PROGRESS, the loop issues exactly ceil(maxWait / pollInterval)
\* status polls, at least one, each followed by a sleep of the whole poll
\* interval, and the timeout error is raised at an elapsed time of at least
\* maxWait and less than maxWait + pollInterval; maxWait and pollInterval are
\* the values the loop runs with.
C24_PollCount == []C24_Count /\ [][C24_Step]_vars

\* a poll interval of 2 s and a max wait of 3 s: two polls, timeout at 4 s
C24_Witness ==
    /\ TimedOut
    /\ params.options.pollInterval = Some(2) /\ params.options.maxWaitTime = Some(3)
    /\ PollsIssued = 2
    /\ Elapsed = 4 * MsPerSecond

----------------------------------------------------------------------------
(* C25 *)

\* a complete entry: a descriptor object that exists and the time of its store
CompleteEntry(e) ==
    /\ DOMAIN e = {"data", "timestamp"}
    /\ DOMAIN e.data = {"oid", "info"}
    /\ e.data.oid \in 1..heap
    /\ \E m \in SchemaIds :
          e.data.info \in {parseOpenAPISchema(r.models[1][1]) :
                              r \in {r \in ModelsResponses(m) :
                                        r.models # <<>> /\ r.models[1] # <<>>}}
    /\ e.timestamp \in 0..now
\* the entries in the cache and the ones the calls have read from it
EntriesSeen ==
    {modelSchemaCache[m][1] : m \in {m \in SchemaIds : modelSchemaCache[m] # <<>>}}
    \cup {calls[c].cached[1] : c \in {c \in Callers : calls[c].cached # <<>>}}

C25_Reads ==
    /\ \A e \in EntriesSeen : CompleteEntry(e)
    \* one descriptor object, one content and one timestamp
    /\ \A e, f \in EntriesSeen : e.data.oid = f.data.oid => e = f
C25_Step ==
    /\ \A c \in Callers :
          calls'[c].n = calls[c].n + 1 =>
              calls'[c].cached = modelSchemaCache[calls'[c].modelId]
    /\ \A m \in SchemaIds :
          modelSchemaCache'[m] # modelSchemaCache[m] =>
              /\ modelSchemaCache'[m] # <<>>
              /\ modelSchemaCache'[m][1].data.oid = heap + 1
              /\ modelSchemaCache'[m][1].timestamp = now
              /\ heap' = heap + 1
              /\ \E c \in Callers :
                    /\ calls[c].pc = "fetching" /\ calls[c].modelId = m
                    /\ calls'[c].ret = <<modelSchemaCache'[m][1].data>>

\* C25: under every interleaving of concurrent getModelSchema calls, a cache
\* read observes no entry or a complete pair of a descriptor and a timestamp.
\* An entry changes only by the store of a call that fetched that model, which
\* puts a new descriptor object and the current time in one step; an entry is
\* never removed, and no descriptor object is ever seen with two contents or
\* two timestamps.
C25_WholesaleEntries == []C25_Reads /\ [][C25_Step]_vars

\* a call still holds the expired entry it read while another call has
\* replaced that entry
C25_Witness ==
    \E c \in Callers :
        /\ calls[c].pc = "fetching"
        /\ calls[c].cached # <<>>
        /\ calls[c].cached[1].data.oid = 1
        /\ modelSchemaCache[calls[c].modelId] # <<>>
        /\ modelSchemaCache[calls[c].modelId][1].data.oid = 2
        /\ modelSchemaCache[calls[c].modelId][1].timestamp > calls[c].cached[1].timestamp

----------------------------------------------------------------------------
(* C26 *)

\* what the two operations differ in: the key of the record and its value,
\* the path of the submit URL and the base of the derived URLs
OwnKey == IF IsGenerate(params) THEN "model" ELSE "workflow_id"
OwnId == IF IsGenerate(params) THEN params.model ELSE params.workflowId
OwnSubmitPath ==
    IF IsGenerate(params) THEN resolveQueuePaths(params.model).submitPath
    ELSE <<"workflows", Slash>> \o params.workflowId
OwnBase ==
    IF IsGenerate(params) THEN resolveQueuePaths(params.model).baseModelId
    ELSE <<"workflows", Slash>> \o params.workflowId
Strip(rec, key) == [k \in DOMAIN rec \ {key} |-> rec[k]]

\* the request a step issues, if any, and the time the step takes
StepRequest ==
    IF Len(reqs') = Len(reqs) THEN <<>>
    ELSE <<reqs'[Len(reqs')].kind, reqs'[Len(reqs')].method>>
\* where a step leaves the item: in the loop, or ended in an outcome class
StepOutcome ==
    IF pc' \in {"while", "sleep", "fetch"} THEN pc'
    ELSE IF caught' # Undefined
    THEN IF caught'[1] \in HttpErrors THEN "transport"
         ELSE IF caught'[1].message.tpl \in FailedTemplates THEN "failed"
         ELSE IF caught'[1].message.tpl \in UnexpectedTemplates THEN "unexpected"
         ELSE IF caught'[1].message.tpl \in TimeoutTemplates THEN "timeout"
         ELSE "other"
    ELSE IF returnData' = returnData THEN "other"
    ELSE IF "status" \in DOMAIN returnData'[Len(returnData')].json THEN "queued"
    ELSE "completed"
\* the same, as the options, the clock and the responses of the step decide
\* it for generate and runWorkflow alike
ExpectedRequest ==
    CASE pc = "submit" -> <<"submit", "POST">>
      [] pc = "while" ->
            IF now - job.startTime
                   < NumOrElse(params.options.maxWaitTime, DefaultMaxWaitTime) * MsPerSecond
            THEN <<"status", "GET">> ELSE <<>>
      [] pc = "sleep" -> <<>>
      [] OTHER -> <<"result", "GET">>
ExpectedOutcome ==
    CASE pc = "submit" ->
            IF job' = NoJob THEN "transport"
            ELSE IF params.options.waitForCompletion = Some(FALSE) THEN "queued"
            ELSE "while"
      [] pc = "while" ->
            IF ExpectedRequest = <<>> THEN "timeout"
            ELSE IF statusResponse' = Undefined THEN "transport"
            ELSE IF statusResponse'[1].status = "COMPLETED" THEN "fetch"
            ELSE IF statusResponse'[1].status \in {"FAILED", "CANCELLED"} THEN "failed"
            ELSE IF statusResponse'[1].status \in {"IN_QUEUE", "IN_PROGRESS"} THEN "sleep"
            ELSE "unexpected"
      [] pc = "sleep" -> "while"
      [] OTHER -> IF resultResponse' = Undefined THEN "transport" ELSE "completed"
PushedJson == returnData'[Len(returnData')].json

C26_Step ==
    pc \in {"submit", "while", "sleep", "fetch"} =>
        /\ StepRequest = ExpectedRequest
        /\ StepOutcome = ExpectedOutcome
        /\ pc = "sleep" =>
              now' - now
                  = NumOrElse(params.options.pollInterval, DefaultPollInterval) * MsPerSecond
        /\ pc # "sleep" => now' - now \in Latencies
        \* the differences: URLs and the key of the record
        /\ pc = "submit" => reqs'[Len(reqs')].url = QueueHost \o OwnSubmitPath
        /\ (pc = "while" /\ StepRequest # <<>>) =>
              reqs'[Len(reqs')].url =
                  IF Present(job.queueResponse.status_url) THEN job.queueResponse.status_url[1]
                  ELSE QueueHost \o OwnBase
                         \o <<Slash, "requests", Slash, job.queueResponse.request_id>>
                         \o <<Slash, "status">>
        /\ StepOutcome \in {"queued", "completed"} =>
              /\ DOMAIN PushedJson \cap {"model", "workflow_id"} \subseteq
                    {OwnKey} \cup (IF StepOutcome = "completed"
                                   THEN DOMAIN resultResponse'[1] ELSE {})
              /\ PushedJson[OwnKey] = OwnId
        /\ StepOutcome = "queued" =>
              /\ Strip(PushedJson, OwnKey) =
                    [request_id |-> job'.queueResponse.request_id, status |-> "QUEUED",
                     input |-> params.input, status_url |-> job'.statusUrl,
                     response_url |-> job'.responseUrl, cancel_url |-> job'.cancelUrl]
        /\ StepOutcome = "completed" =>
              Strip(PushedJson, OwnKey) =
                  Strip(Merge(resultResponse'[1],
                              [request_id |-> job.queueResponse.request_id]), OwnKey)
        /\ StepOutcome \in {"failed", "unexpected"} =>
              /\ caught'[1].message.status = statusResponse'[1].status
              /\ caught'[1].message.requestId = job.queueResponse.request_id

\* C26: generate and runWorkflow run the same polling state machine. In each
\* step from the submit on, the request issued, the time the step takes and
\* the place the step leaves the item in (the loop condition, the sleep, the
\* result fetch, or one of the outcomes queued record, completed record,
\* FAILED/CANCELLED error, unexpected-status error, transport error, timeout
\* error) are fixed by the wait options, the clock and the responses alone;
\* the operation decides only the submit URL, the base of the derived URLs
\* and the key of the record, model or workflow_id.
C26_SameMachine == [][C26_Step]_vars

\* a runWorkflow item completed after a pending poll and a sleep, with a
\* record that keeps the payload and carries workflow_id
C26_Witness ==
    /\ ItemDone /\ IsRun(params) /\ caught = Undefined
    /\ resultResponse # Undefined /\ "model" \in DOMAIN resultResponse[1]
    /\ Len(ReqsOf(0, "status")) = 2
    /\ LastRecord.json.workflow_id = GoodWorkflow
    /\ LastRecord.json.output = "y"

----------------------------------------------------------------------------
(* C27 *)

\* the step that fetches the result of a generate item and pushes its record
GenerateCompletes ==
    /\ pc = "fetch" /\ IsGenerate(params)
    /\ resultResponse' # Undefined
C27_Step ==
    GenerateCompletes =>
        /\ returnData' = Append(returnData, [json |-> PushedJson, pairedItem |-> [item |-> i]])
        /\ PushedJson.request_id = job.queueResponse.request_id
        /\ PushedJson.model = params.model
        /\ \A k \in DOMAIN resultResponse'[1] \ {"request_id", "model"} :
              k \in DOMAIN PushedJson /\ PushedJson[k] = resultResponse'[1][k]
        /\ DOMAIN PushedJson = DOMAIN resultResponse'[1] \cup {"request_id", "model"}

\* C27: the record of a generate item that waited and completed has
\* request_id equal to the request id of the item's submit response and model
\* equal to the configured model id, also when the result payload has fields
\* request_id or model of its own; every other field of the payload is in the
\* record with its value, and the record has no further field.
C27_IdentityFieldsWin == [][C27_Step]_vars

\* a record whose payload named another request and another model
C27_Witness ==
    /\ ItemDone /\ IsGenerate(params) /\ caught = Undefined
    /\ resultResponse # Undefined
    /\ {"request_id", "model"} \subseteq DOMAIN resultResponse[1]
    /\ resultResponse[1].request_id = "r0" /\ resultResponse[1].model = <<"other">>
    /\ LastRecord.json.request_id = "r2"
    /\ LastRecord.json.model = params.model
    /\ LastRecord.json.workflow_id = <<"other">>

----------------------------------------------------------------------------
(* C28 *)

\* the step in which the item fails: the catch block has run
ItemFails == caught = Undefined /\ caught' # Undefined
C28_Step ==
    ItemFails =>
        IF cof
        THEN /\ returnData' =
                    Append(returnData,
                           [json |-> [error |-> caught'[1].message],
                            pairedItem |-> [item |-> i]])
             /\ thrown' = Undefined
             /\ pc' = "loop"
        ELSE /\ pc' = "raised"
             /\ returnData' = returnData
             /\ thrown' # Undefined
             /\ IF caught'[1].response # Undefined
                THEN /\ thrown'[1].name = "NodeApiError"
                     /\ thrown'[1].message.tpl = "fal.ai request failed (${status}): ${message}"
                     /\ thrown'[1].message.message
                           = getHttpErrorDetails(caught'[1])[1].message
                     /\ thrown'[1].payload # Undefined
                     /\ thrown'[1].payload[1].message = thrown'[1].message.message
                ELSE /\ thrown'[1].name = "NodeOperationError"
                     /\ thrown'[1].message = caught'[1].message
                     /\ thrown'[1].payload = Undefined

\* C28: the catch block normalizes on the abort path only. With
\* continue-on-fail enabled the record of the failed item is {error: message}
\* with the message of the thrown error as it is, and nothing is raised. With
\* continue-on-fail disabled an error with transport details is raised as an
\* API error with the normalized message and a payload, an error without them
\* as an operation error with its own message and no payload.
C28_NormalizedOnAbortOnly == [][C28_Step]_vars

\* continue-on-fail recorded the transport's own message although the body of
\* the response had a detail field
C28_Witness ==
    /\ cof /\ pc = "loop" /\ i = 1
    /\ caught # Undefined /\ caught[1].response # Undefined
    /\ caught[1].response[1].data.t = "object"
    /\ caught[1].response[1].data.detail = StrField("bad input")
    /\ getHttpErrorDetails(caught[1])[1].message = Text("bad input")
    /\ returnData[1].json = [error |-> Text("Request failed with status code")]

----------------------------------------------------------------------------
(* C29 *)

\* the components parseOpenAPISchema chose from the response of call c
ChosenComponents(c) ==
    LET schemas == calls[c].response[1].models[1][1].openapi[1].schemas[1]
    IN [input |-> SelectSeq(schemas, LAMBDA e : e.name = <<"Flux", "Input">>)[1].schema,
        output |-> SelectSeq(schemas, LAMBDA e : e.name = <<"Flux", "Output">>)[1].schema]
Parsed(c) ==
    /\ calls[c].pc = "returned"
    /\ calls[c].response # <<>> /\ calls[c].ret # <<Null>>
NamesOf(descriptors) == [k \in 1..Len(descriptors) |-> descriptors[k].name]
IsPermutation(s, t) ==
    /\ Len(s) = Len(t)
    /\ \A x \in {s[k] : k \in 1..Len(s)} \cup {t[k] : k \in 1..Len(t)} :
          Cardinality({k \in 1..Len(s) : s[k] = x}) = Cardinality({k \in 1..Len(t) : t[k] = x})
\* the descriptors are those of the component: one for each property, in the
\* order of the hint when the component has one, else in declaration order,
\* required exactly for the names of the required list
DescribesComponent(descriptors, component) ==
    LET declared == Keys(component.properties[1])
        required == IF component.required = <<>> THEN <<>> ELSE component.required[1]
    IN /\ IsPermutation(NamesOf(descriptors), declared)
       /\ IF component.xFalOrderProperties = <<>>
          THEN NamesOf(descriptors) = declared
          ELSE NamesOf(descriptors)
                   = SelectSeq(component.xFalOrderProperties[1],
                               LAMBDA n : \E k \in 1..Len(declared) : declared[k] = n)
       /\ \A k \in 1..Len(descriptors) :
             descriptors[k].required
                 <=> \E j \in 1..Len(required) : required[j] = descriptors[k].name

\* C29: parseOpenAPISchema emits exactly one Parameter Descriptor for each
\* property of the chosen Input component, and of the Output component, in
\* the order of x-fal-order-properties when the component has that hint and
\* in declaration order otherwise, with required set exactly for the names in
\* the required list.
C29_OnePerProperty ==
    \A c \in Callers :
        Parsed(c) =>
            /\ DescribesComponent(calls[c].ret[1].info.inputParameters,
                                  ChosenComponents(c).input)
            /\ DescribesComponent(calls[c].ret[1].info.outputParameters,
                                  ChosenComponents(c).output)

----------------------------------------------------------------------------
(* C30 *)

\* the cancel URL of the job: the submit response's, or the derived one
CancelUrlOf(p, queueResponse) ==
    IF Present(queueResponse.cancel_url) THEN queueResponse.cancel_url[1]
    ELSE QueueHost
           \o (IF IsGenerate(p) THEN resolveQueuePaths(p.model).baseModelId
               ELSE <<"workflows", Slash>> \o p.workflowId)
           \o <<Slash, "requests", Slash, queueResponse.request_id, Slash, "cancel">>
HasJob == params # NoParams /\ job # NoJob

C30_NoCancelRequest ==
    /\ \A n \in 1..Len(reqs) :
          /\ reqs[n].kind \in {"submit", "status", "result", "single"}
          /\ reqs[n].method \in {"POST", "GET"}
          /\ HasJob => reqs[n].url # CancelUrlOf(params, job.queueResponse)
          /\ Len(reqs[n].url) > 0 => reqs[n].url[Len(reqs[n].url)] # "cancel"
    \* the cancel URL is a field of the immediate-return record and of no other
    /\ \A k \in 1..Len(returnData) :
          "cancel_url" \in DOMAIN returnData[k].json =>
              /\ HasJob /\ ~Waits(params)
              /\ returnData[k].json.status = "QUEUED"
              /\ returnData[k].json.cancel_url = CancelUrlOf(params, job.queueResponse)
    /\ (ItemDone /\ HasJob /\ ~Waits(params) /\ caught = Undefined) =>
          /\ Len(returnData) = 1
          /\ "cancel_url" \in DOMAIN returnData[1].json
\* the step that gives up on a pending job issues no request
C30_Step ==
    (pc = "while" /\ pc' \in {"loop", "raised"} /\ caught' # Undefined
     /\ caught'[1].message.tpl \in TimeoutTemplates) => reqs' = reqs

\* C30: no request of generate or runWorkflow goes to the cancel URL of the
\* job, the one of the submit response or the derived one, whatever the
\* outcome is; the requests are the submit POST and GETs of the status and
\* result URLs. The cancel URL appears only as the cancel_url field of the
\* immediate-return record, and the step that ends an item with the timeout
\* error issues no request, so the job is left as it is.
C30_NeverCancels == []C30_NoCancelRequest /\ [][C30_Step]_vars

\* an item timed out after a poll, with a job whose submit response named a
\* cancel URL, and the log holds the submit and status requests only
C30_Witness ==
    /\ ItemDone /\ HasJob
    /\ caught # Undefined /\ caught[1].message.tpl \in TimeoutTemplates
    /\ job.queueResponse.cancel_url = Some(GivenCancelUrl)
    /\ Len(reqs) = 3
    /\ reqs[Len(reqs)].kind = "status"

====
